---- MODULE Spec2Model ----
(***************************************************************************)
(* Live fraud monitoring: the risk scorer (EnhancedFraudClassifier) and    *)
(* the per-call session monitor (RealTimeFraudMonitor).                    *)
(*                                                                         *)
(* Numbers.  Scores, probabilities and confidences are Python floats in    *)
(* [0,1]; here they are integers counted in millionths (ONE = 1.0), which  *)
(* is exact for every constant of the code (0.05, 0.3, 0.95, w/10, p*0.3). *)
(*                                                                         *)
(* Text.  A Python str is modelled by its split(" ") list: a sequence of   *)
(* tokens, the str being the tokens joined by single spaces; the empty str *)
(* is <<"">>.  The accumulated transcript, built by += " " + text, is the  *)
(* sequence of all tokens appended so far, each preceded by one space.     *)
(***************************************************************************)
EXTENDS Integers, Sequences, FiniteSets, TLC

\* ------------------------------------------------------------------------
\* Bounds of the model
\* ------------------------------------------------------------------------
NTasks == 2
MaxSessions == 1
MaxIngest == 2
MaxEnd == 2
MaxKw == 3
MaxTextLen == 2

\* ------------------------------------------------------------------------
\* Arithmetic helpers
\* ------------------------------------------------------------------------
ONE == 1000000

Min(a, b) == IF a <= b THEN a ELSE b

Max(a, b) == IF a >= b THEN a ELSE b

\* round(x, 3): to the nearest thousandth (inputs are chosen off the ties).
Round3(x) == ((x + 500) \div 1000) * 1000

Range(s) == {s[i] : i \in DOMAIN s}

RECURSIVE SumSeq(_)
SumSeq(s) == IF s = <<>> THEN 0 ELSE Head(s) + SumSeq(Tail(s))

\* ------------------------------------------------------------------------
\* Lexical layer: what Python's str operations see in a token
\* ------------------------------------------------------------------------
\* Tokens written in capitals, with their str.lower().
UpperTokens == [IRS |-> "irs", PIN |-> "pin", URGENT |-> "urgent"]

\* Tokens with a capital first letter, with their str.lower().
CapitalTokens == ("Your" :> "your") @@ ("Please" :> "please") @@ ("Hi," :> "hi,")

LowerTok(w) ==
    IF w \in DOMAIN UpperTokens THEN UpperTokens[w]
    ELSE IF w \in DOMAIN CapitalTokens THEN CapitalTokens[w]
    ELSE w

LowerText(toks) == [i \in DOMAIN toks |-> LowerTok(toks[i])]

\* Number of characters c of the token with c.isupper().
UpperChars(w) ==
    IF w \in DOMAIN UpperTokens THEN Len(w)
    ELSE IF w \in DOMAIN CapitalTokens THEN 1
    ELSE 0

\* Tokens that carry '!' characters, with the count.
ExclTokens == ("now!!!" :> 3)

ExclChars(w) == IF w \in DOMAIN ExclTokens THEN ExclTokens[w] ELSE 0

\* <<token, word>>: word is a proper prefix / suffix / inner part of token.
ProperPrefix ==
    {<<"immediately", "immediate">>, <<"accounts", "account">>, <<"now!!!", "now">>,
     <<"immediately.", "immediate">>, <<"suspended.", "suspended">>}

ProperSuffix == {<<"unblocked", "blocked">>}

ProperInfix == {}

PrefixOf(tok, w) == tok = w \/ <<tok, w>> \in ProperPrefix

SuffixOf(tok, w) == tok = w \/ <<tok, w>> \in ProperSuffix

SubOf(tok, w) == PrefixOf(tok, w) \/ SuffixOf(tok, w) \/ <<tok, w>> \in ProperInfix

\* The words a token contains: itself and its proper parts.
Stems(tok) ==
    {tok} \cup {p[2] : p \in {q \in ProperPrefix \cup ProperSuffix \cup ProperInfix : q[1] = tok}}

AllStems(toks) == UNION {Stems(toks[i]) : i \in DOMAIN toks}

\* len(text) of the str made of the tokens joined by single spaces.
CharLen(toks) == SumSeq([i \in DOMAIN toks |-> Len(toks[i])]) + (Len(toks) - 1)

RECURSIVE StripLeft(_)
StripLeft(toks) ==
    IF toks # <<>> /\ Head(toks) = "" THEN StripLeft(Tail(toks)) ELSE toks

RECURSIVE StripRight(_)
StripRight(toks) ==
    IF toks # <<>> /\ toks[Len(toks)] = ""
    THEN StripRight(SubSeq(toks, 1, Len(toks) - 1))
    ELSE toks

\* str.strip() of the transcript " t1 t2 ...": no leading or trailing blanks.
\* The empty str is <<"">>.
StripAcc(acc) ==
    LET s == StripRight(StripLeft(acc)) IN IF s = <<>> THEN <<"">> ELSE s

\* str.split(): the non-empty tokens.
Words(toks) == SelectSeq(toks, LAMBDA w : w # "")

\* phrase (a sequence of words joined by single spaces) in text: substring
\* containment, so the first word may end a token and the last may start one.
PhraseAtLit(toks, i, ph) ==
    /\ i + Len(ph) - 1 <= Len(toks)
    /\ IF Len(ph) = 1
       THEN SubOf(toks[i], ph[1])
       ELSE /\ SuffixOf(toks[i], ph[1])
            /\ PrefixOf(toks[i + Len(ph) - 1], ph[Len(ph)])
            /\ \A j \in 2..(Len(ph) - 1) : toks[i + j - 1] = ph[j]

ContainsLit(toks, ph) == \E i \in DOMAIN toks : PhraseAtLit(toks, i, ph)

\* ------------------------------------------------------------------------
\* RealTimeFraudMonitor: constants and pure helpers
\* ------------------------------------------------------------------------
\* alert_threshold (default 0.3), the escalation delta 0.2 and the context
\* floor of 50 characters.
AlertThreshold == 300000

EscalationDelta == 200000

ContextFloor == 50

\* self.fraud_keywords
fraud_keywords ==
    <<"urgent", "immediate", "limited time", "act now", "verify account",
       "suspended", "blocked", "security breach", "unauthorized",
       "confirm identity", "send money", "wire transfer", "gift card",
       "cryptocurrency", "bitcoin", "social security", "bank account",
       "credit card", "password", "PIN", "IRS", "government agency",
       "arrest warrant", "legal action", "refund", "prize", "lottery",
       "winner", "congratulations", "inheritance" >>

high_risk_keywords ==
    <<"send money", "wire transfer", "gift card", "bitcoin", "social security",
      "arrest warrant">>

critical_keywords == <<"suspended", "blocked", "verify account", "confirm identity", "IRS">>

\* The words of a keyword, which are joined by single spaces.
KeywordWords ==
    ("urgent" :> <<"urgent">>) @@
    ("immediate" :> <<"immediate">>) @@
    ("limited time" :> <<"limited", "time">>) @@
    ("act now" :> <<"act", "now">>) @@
    ("verify account" :> <<"verify", "account">>) @@
    ("suspended" :> <<"suspended">>) @@
    ("blocked" :> <<"blocked">>) @@
    ("security breach" :> <<"security", "breach">>) @@
    ("unauthorized" :> <<"unauthorized">>) @@
    ("confirm identity" :> <<"confirm", "identity">>) @@
    ("send money" :> <<"send", "money">>) @@
    ("wire transfer" :> <<"wire", "transfer">>) @@
    ("gift card" :> <<"gift", "card">>) @@
    ("cryptocurrency" :> <<"cryptocurrency">>) @@
    ("bitcoin" :> <<"bitcoin">>) @@
    ("social security" :> <<"social", "security">>) @@
    ("bank account" :> <<"bank", "account">>) @@
    ("credit card" :> <<"credit", "card">>) @@
    ("password" :> <<"password">>) @@
    ("PIN" :> <<"PIN">>) @@
    ("IRS" :> <<"IRS">>) @@
    ("government agency" :> <<"government", "agency">>) @@
    ("arrest warrant" :> <<"arrest", "warrant">>) @@
    ("legal action" :> <<"legal", "action">>) @@
    ("refund" :> <<"refund">>) @@
    ("prize" :> <<"prize">>) @@
    ("lottery" :> <<"lottery">>) @@
    ("winner" :> <<"winner">>) @@
    ("congratulations" :> <<"congratulations">>) @@
    ("inheritance" :> <<"inheritance">>)

\* [keyword for keyword in self.fraud_keywords if keyword in text_lower]
DetectedKeywords(text) ==
    LET text_lower == LowerText(text)
        stems == AllStems(text_lower)
    IN  SelectSeq(fraud_keywords,
                  LAMBDA k : KeywordWords[k][1] \in stems
                             /\ ContainsLit(text_lower, KeywordWords[k]))

\* A plausible slip: the keyword count is tested before the keyword sets.
CalculateSeverityCountFirst(keywords) ==
    IF Len(keywords) >= 3 THEN "MEDIUM"
    ELSE IF \E i \in DOMAIN critical_keywords : critical_keywords[i] \in Range(keywords)
    THEN "CRITICAL"
    ELSE IF \E i \in DOMAIN high_risk_keywords : high_risk_keywords[i] \in Range(keywords)
    THEN "HIGH"
    ELSE "LOW"

\* _calculate_severity(keywords, text)
CalculateSeverity(keywords) ==
    IF \E i \in DOMAIN critical_keywords : critical_keywords[i] \in Range(keywords)
    THEN "CRITICAL"
    ELSE IF \E i \in DOMAIN high_risk_keywords : high_risk_keywords[i] \in Range(keywords)
    THEN "HIGH"
    ELSE IF Len(keywords) >= 3 THEN "MEDIUM"
    ELSE "LOW"

\* A plausible slip: the thresholds taken with > instead of >=.
DetermineRiskLevelStrict(risk_score) ==
    IF risk_score > 800000 THEN "CRITICAL"
    ELSE IF risk_score > 600000 THEN "HIGH"
    ELSE IF risk_score > 400000 THEN "MEDIUM"
    ELSE "LOW"

\* _determine_risk_level(risk_score)
DetermineRiskLevel(risk_score) ==
    IF risk_score >= 800000 THEN "CRITICAL"
    ELSE IF risk_score >= 600000 THEN "HIGH"
    ELSE IF risk_score >= 400000 THEN "MEDIUM"
    ELSE "LOW"

\* Previous scores p (in thousandths) for which the float sum p + 0.2 rounds
\* below the float p + 0.2 of the reals, so that `new > previous + 0.2` is
\* true for new = previous + 0.2 (IEEE-754 double addition, line 204).
FloatSumBelow ==
    {141, 142, 143, 345, 347, 349, 351, 353, 355, 357, 359, 361, 470, 472,
     474, 476, 478, 480, 482, 484, 486, 563, 565, 567, 569, 571, 573, 575,
     577, 579, 581, 583, 585, 587, 589, 591, 593, 595, 597, 599, 601, 603,
     605, 607, 609, 611, 688, 690, 692, 694, 696, 698, 700, 702, 704, 706,
     708, 710, 712, 714, 716, 718, 720, 722, 724, 726, 728, 730, 732, 734,
     736}

\* result.risk_score > previous_risk + 0.2, both rounded to 3 decimals.
ExceedsByDelta(new, previous) ==
    \/ new > previous + EscalationDelta
    \/ new = previous + EscalationDelta /\ (previous \div 1000) \in FloatSumBelow

\* The escalation gate of _analyze_full_context.
EscalationGate(new, previous) ==
    new > AlertThreshold /\ ExceedsByDelta(new, previous)

\* ------------------------------------------------------------------------
\* EnhancedFraudClassifier: the pattern catalog
\* ------------------------------------------------------------------------
\* A regex pattern \b(p1|p2|..) is mode "single"; \b(p..)\s+(q..) is "adj";
\* \b(p..)\s+(q)? is "opt"; \b(p..)\s+.*(q..) is "gap".  A non-regex pattern
\* is mode "lit".  Phrases are sequences of words (joined by \s+ in a regex,
\* by one space in a literal).  weight is counted in tenths.
Pat(mode, pre, post, weight, ind) ==
    [mode |-> mode, pre |-> pre, post |-> post, weight |-> weight, ind |-> ind]

W1(a) == {<<x>> : x \in a}

\* _load_fraud_patterns()
fraud_patterns ==
    << Pat("adj", W1({"transfer", "send"}), W1({"money", "cash", "funds"}), 20,
           "financial: Money transfer request"),
       Pat("adj", W1({"bank", "account"}), W1({"details", "information", "number"}), 18,
           "financial: Bank account information request"),
       Pat("adj", {<<"credit", "card">>, <<"debit", "card">>}, W1({"number", "details"}), 22,
           "financial: Credit card information request"),
       Pat("opt", {<<"social", "security">>, <<"ssn">>}, W1({"number"}), 25,
           "identity: SSN request"),
       Pat("single", {<<"routing", "number">>, <<"account", "number">>}, {}, 20,
           "financial: Banking details request"),
       Pat("adj", W1({"verify", "confirm"}), W1({"your", "account", "identity"}), 15,
           "verification: Identity verification request"),
       Pat("single", {<<"otp">>, <<"one", "time", "password">>, <<"verification", "code">>}, {}, 21,
           "verification: OTP/verification code request"),
       Pat("adj", W1({"enter", "provide", "give"}), W1({"code", "password", "pin"}), 19,
           "verification: Security code request"),
       Pat("adj", {<<"two", "factor">>, <<"2fa">>, <<"multi", "factor">>}, W1({"authentication"}), 17,
           "verification: 2FA bypass attempt"),
       Pat("single", {<<"urgent">>, <<"emergency">>, <<"immediate">>, <<"expire", "today">>,
                      <<"expire", "soon">>, <<"expires", "today">>, <<"expires", "soon">>}, {}, 13,
           "urgency: Urgency pressure tactic"),
       Pat("single", {<<"act", "now">>, <<"limited", "time">>, <<"hurry">>, <<"quickly">>}, {}, 12,
           "urgency: Time pressure tactic"),
       Pat("adj", W1({"suspended", "frozen", "blocked", "closed"}), W1({"account", "card"}), 16,
           "urgency: Account threat"),
       Pat("single", {<<"irs">>, <<"internal", "revenue">>, <<"tax", "department">>}, {}, 20,
           "impersonation: IRS impersonation"),
       Pat("single", {<<"fbi">>, <<"police">>, <<"law", "enforcement">>, <<"detective">>}, {}, 22,
           "impersonation: Law enforcement impersonation"),
       Pat("adj", W1({"microsoft", "apple", "google", "amazon"}), W1({"support", "security"}), 18,
           "impersonation: Tech company impersonation"),
       Pat("adj", {<<"bank">>, <<"financial", "institution">>}, W1({"representative", "agent"}), 17,
           "impersonation: Bank impersonation"),
       Pat("adj", W1({"virus", "malware", "infected", "hacked"}), W1({"computer", "device"}), 19,
           "tech_scam: Fake virus/malware alert"),
       Pat("single", {<<"remote", "access">>, <<"team", "viewer">>, <<"screen", "share">>}, {}, 23,
           "tech_scam: Remote access request"),
       Pat("single", {<<"windows", "key">>, <<"run", "command">>, <<"cmd">>, <<"registry">>}, {}, 20,
           "tech_scam: System access instruction"),
       Pat("single", W1({"congratulations", "winner", "won", "lottery", "prize"}), {}, 14,
           "prize_scam: Prize/lottery scam"),
       Pat("adj", W1({"claim", "collect"}), W1({"prize", "winnings", "money"}), 16,
           "prize_scam: Prize claim request"),
       Pat("gap", W1({"love", "relationship", "marry", "marriage"}),
           W1({"money", "help", "emergency"}), 18, "romance: Romance scam indicator"),
       Pat("gap", W1({"deployed", "military", "overseas"}), W1({"money", "funds", "help"}), 19,
           "romance: Military romance scam"),
       Pat("adj", W1({"investment", "crypto", "bitcoin", "trading"}),
           W1({"opportunity", "guaranteed"}), 17, "investment: Investment scam"),
       Pat("single", {<<"high", "returns">>, <<"guaranteed", "profit">>,
                      <<"double", "your", "money">>}, {}, 20,
           "investment: Unrealistic returns promise"),
       Pat("gap", {<<"donation">>, <<"charity">>, <<"disaster", "relief">>},
           W1({"urgent", "help", "emergency"}), 15, "charity: Charity scam"),
       Pat("lit", {<<"transfer">>}, {}, 12, "financial: Money transfer keyword"),
       Pat("lit", {<<"bank">>}, {}, 10, "financial: Banking keyword"),
       Pat("lit", {<<"account">>}, {}, 10, "financial: Account keyword"),
       Pat("lit", {<<"otp">>}, {}, 18, "verification: OTP keyword"),
       Pat("lit", {<<"code">>}, {}, 11, "verification: Code keyword"),
       Pat("lit", {<<"verify">>}, {}, 13, "verification: Verification keyword"),
       Pat("lit", {<<"password">>}, {}, 15, "security: Password keyword"),
       Pat("lit", {<<"ssn">>}, {}, 20, "identity: SSN keyword"),
       Pat("lit", {<<"social", "security">>}, {}, 22, "identity: Social Security keyword"),
       Pat("lit", {<<"urgent">>}, {}, 12, "urgency: Urgency keyword"),
       Pat("lit", {<<"immediate">>}, {}, 13, "urgency: Immediate action keyword"),
       Pat("lit", {<<"suspended">>}, {}, 14, "threat: Account suspension threat"),
       Pat("lit", {<<"frozen">>}, {}, 14, "threat: Account frozen threat") >>

\* The words of a phrase stand at words i.. of ws, each token being the word.
ExactAt(ws, i, ph) ==
    /\ i >= 1
    /\ i + Len(ph) - 1 <= Len(ws)
    /\ \A j \in DOMAIN ph : ws[i + j - 1] = ph[j]

\* As ExactAt, but the regex ends inside the last token: it starts with the word.
StartsAt(ws, i, ph) ==
    /\ i >= 1
    /\ i + Len(ph) - 1 <= Len(ws)
    /\ \A j \in DOMAIN ph :
          IF j = Len(ph) THEN PrefixOf(ws[i + j - 1], ph[j]) ELSE ws[i + j - 1] = ph[j]

\* re.search(pattern, text_lower) / pattern in text_lower
PatternMatches(pat, text_lower) ==
    LET ws == Words(text_lower)
        \* white space follows the token at word position k
        spaceAfter(k) == k < Len(ws) \/ text_lower[Len(text_lower)] = ""
    IN  CASE pat.mode = "lit" ->
               \E ph \in pat.pre : ContainsLit(text_lower, ph)
          [] pat.mode = "single" ->
               \E ph \in pat.pre : \E i \in DOMAIN ws : StartsAt(ws, i, ph)
          [] pat.mode = "adj" ->
               \E ph \in pat.pre : \E i \in DOMAIN ws :
                  /\ ExactAt(ws, i, ph)
                  /\ \E q \in pat.post : StartsAt(ws, i + Len(ph), q)
          [] pat.mode = "opt" ->
               \E ph \in pat.pre : \E i \in DOMAIN ws :
                  ExactAt(ws, i, ph) /\ spaceAfter(i + Len(ph) - 1)
          [] pat.mode = "gap" ->
               \E ph \in pat.pre : \E i \in DOMAIN ws :
                  /\ ExactAt(ws, i, ph)
                  /\ spaceAfter(i + Len(ph) - 1)
                  /\ \E j \in (i + Len(ph))..Len(ws) : \E q \in pat.post :
                        SubOf(ws[j], q[1])

\* match_fraud_patterns(text): the matched patterns, in catalog order.
MatchedPatterns(text) ==
    LET text_lower == LowerText(text)
        stems == AllStems(text_lower)
    IN  SelectSeq(fraud_patterns,
                  LAMBDA pat : /\ \E ph \in pat.pre : ph[1] \in stems
                               /\ PatternMatches(pat, text_lower))

MatchIndicators(matched) == [i \in DOMAIN matched |-> matched[i].ind]

\* A plausible slip: total_weight = pattern.weight instead of +=, which
\* leaves the weight of the last match.
MatchWeightOfLast(matched) ==
    IF matched = <<>> THEN 0 ELSE matched[Len(matched)].weight

\* total_weight of match_fraud_patterns: the weights of the matches added up.
MatchWeight(matched) == SumSeq([i \in DOMAIN matched |-> matched[i].weight])

\* ------------------------------------------------------------------------
\* EnhancedFraudClassifier: linguistic features and the risk score
\* ------------------------------------------------------------------------
UrgencyWords == {"urgent", "emergency", "immediately", "now", "quickly", "hurry"}

MoneyWords == {"money", "cash", "dollar", "payment", "transfer", "send", "pay"}

PersonalInfoWords == {"ssn", "social", "security", "password", "pin", "account", "number"}

CountIn(ws, set) == Len(SelectSeq(ws, LAMBDA w : LowerTok(w) \in set))

\* extract_linguistic_features(text).  uppercase_ratio is kept as the pair
\* uppercase_count / char_count (0 characters: ratio 0).
ExtractLinguisticFeatures(text) ==
    LET words == Words(text)
    IN  [word_count |-> Len(words),
         exclamation_count |-> SumSeq([i \in DOMAIN text |-> ExclChars(text[i])]),
         uppercase_count |-> SumSeq([i \in DOMAIN text |-> UpperChars(text[i])]),
         char_count |-> CharLen(text),
         urgency_words |-> CountIn(words, UrgencyWords),
         money_words |-> CountIn(words, MoneyWords),
         personal_info_words |-> CountIn(words, PersonalInfoWords)]

\* uppercase_ratio > 0.3
UppercaseRatioHigh(f) == f.char_count > 0 /\ 10 * f.uppercase_count > 3 * f.char_count

\* A plausible slip: the pattern score without its cap of 0.4.
PatternScoreUncapped(pattern_weight) == pattern_weight * 10000

\* pattern_score = min(0.4, pattern_weight / 10.0)
PatternScore(pattern_weight) == Min(400000, pattern_weight * 10000)

\* linguistic_score, capped at 0.3
LinguisticScore(f) ==
    Min(300000,
        (IF f.urgency_words > 0 THEN 50000 ELSE 0)
        + (IF f.money_words > 0 THEN 100000 ELSE 0)
        + (IF f.personal_info_words > 0 THEN 150000 ELSE 0)
        + (IF f.exclamation_count > 2 THEN 50000 ELSE 0)
        + (IF UppercaseRatioHigh(f) THEN 50000 ELSE 0))

\* The external classifier (self.ml_pipeline) as seen by one classify call:
\* present or not; predict_proba raising or not in calculate_risk_score and
\* in classify; the class probabilities, in 1/10000.
MLOut(present, fail_score, fail_label, safe, scam, susp) ==
    [present |-> present, fail_score |-> fail_score, fail_label |-> fail_label,
     safe |-> safe, scam |-> scam, susp |-> susp]

NoML == MLOut(FALSE, FALSE, FALSE, 0, 0, 0)

\* A plausible slip: the failure of predict_proba is not taken into account.
MLScoreIgnoringFailure(ml) == IF ml.present THEN ml.scam * 30 ELSE 0

\* ml_score = prediction_proba[scam_idx] * 0.3
MLScore(ml) == IF ml.present /\ ~ml.fail_score THEN ml.scam * 30 ELSE 0

\* A plausible slip: the sum of the three signals without its caps.
CalculateRiskScoreUncapped(f, pattern_weight, ml) ==
    pattern_weight * 10000 + LinguisticScore(f) + MLScore(ml)

\* calculate_risk_score(text, linguistic_features, pattern_weight)
CalculateRiskScore(f, pattern_weight, ml) ==
    Min(ONE, PatternScore(pattern_weight) + LinguisticScore(f) + MLScore(ml))

\* ml_pipeline.predict: the most probable class, the first of classes_
\* (Safe, Scam, Suspicious) on a tie.
MLPrediction(ml) ==
    IF ml.safe >= ml.scam /\ ml.safe >= ml.susp THEN "Safe"
    ELSE IF ml.scam >= ml.susp THEN "Scam"
    ELSE "Suspicious"

\* ml_pipeline.predict_proba(..)[0].max(), in millionths
MLProba(ml) == Max(ml.safe, Max(ml.scam, ml.susp)) * 100

\* A plausible slip: the label thresholds taken with >= instead of >.
PatternLabelInclusive(risk_score) ==
    IF risk_score >= 700000 THEN "Scam"
    ELSE IF risk_score >= 400000 THEN "Suspicious"
    ELSE "Safe"

\* The label of lines 366-374.
PatternLabel(risk_score) ==
    IF risk_score > 700000 THEN "Scam"
    ELSE IF risk_score > 400000 THEN "Suspicious"
    ELSE "Safe"

\* The confidence of lines 366-374.
PatternConfidence(risk_score) ==
    IF risk_score > 700000 THEN Min(950000, 700000 + (risk_score - 700000) \div 2)
    ELSE IF risk_score > 400000 THEN 600000 + ((risk_score - 400000) * 3) \div 10
    ELSE Max(300000, ONE - risk_score)

\* A plausible slip: the external label is used on a tie as well.
MLOverridesOnTie(ml, confidence) ==
    ml.present /\ ~ml.fail_label /\ MLProba(ml) >= confidence

\* Lines 377-388: the external label is used if it is more confident.
MLOverrides(ml, confidence) ==
    ml.present /\ ~ml.fail_label /\ MLProba(ml) > confidence

\* A plausible slip: the template is chosen by the label alone.
GenerateRecommendationByLabel(risk_score, label) ==
    IF label = "Scam" THEN "HIGH RISK"
    ELSE IF label = "Suspicious" THEN "SUSPICIOUS"
    ELSE "SAFE"

\* generate_recommendation(risk_score, label, matches)
GenerateRecommendation(risk_score, label) ==
    IF label = "Scam" \/ risk_score > 700000 THEN "HIGH RISK"
    ELSE IF label = "Suspicious" \/ risk_score > 400000 THEN "SUSPICIOUS"
    ELSE "SAFE"

\* A fallback that reports the call as suspicious.
FallbackResultSuspicious ==
    [label |-> "Suspicious", confidence |-> 600000, risk_score |-> 0,
     fraud_indicators |-> <<>>, recommendation |-> "UNABLE",
     rationale |-> "Classification error"]

\* The fallback result of lines 421-435.
FallbackResult ==
    [label |-> "Safe", confidence |-> 300000, risk_score |-> 0,
     fraud_indicators |-> <<>>, recommendation |-> "UNABLE",
     rationale |-> "Classification error"]

\* classify(transcript).  raises: a step of the try block throws.
Classify(transcript, ml, raises) ==
    IF raises THEN FallbackResult
    ELSE
    LET linguistic_features == ExtractLinguisticFeatures(transcript)
        matched == MatchedPatterns(transcript)
        risk_score == CalculateRiskScore(linguistic_features, MatchWeight(matched), ml)
        confidence0 == PatternConfidence(risk_score)
        override == MLOverrides(ml, confidence0)
        label == IF override THEN MLPrediction(ml) ELSE PatternLabel(risk_score)
        confidence == IF override THEN Min(950000, MLProba(ml)) ELSE confidence0
    IN  [label |-> label,
         confidence |-> Round3(confidence),
         risk_score |-> Round3(risk_score),
         fraud_indicators |-> MatchIndicators(matched),
         recommendation |-> GenerateRecommendation(risk_score, label),
         rationale |-> IF matched # <<>> THEN "Detected fraud indicators"
                       ELSE "No significant fraud indicators detected."]

\* ------------------------------------------------------------------------
\* RealTimeFraudMonitor: the final report
\* ------------------------------------------------------------------------
\* A plausible slip: a CRITICAL alert is counted under HIGH as well.
GroupAlertsHighAndAbove(alerts) ==
    [sev \in {"CRITICAL", "HIGH", "MEDIUM", "LOW"} |->
        Len(SelectSeq(alerts, LAMBDA a : a.severity = sev
                                         \/ (sev = "HIGH" /\ a.severity = "CRITICAL")))]

\* _group_alerts_by_severity(alerts)
GroupAlertsBySeverity(alerts) ==
    [sev \in {"CRITICAL", "HIGH", "MEDIUM", "LOW"} |->
        Len(SelectSeq(alerts, LAMBDA a : a.severity = sev))]

RECURSIVE AllIndicators(_)
AllIndicators(alerts) ==
    IF alerts = <<>> THEN <<>>
    ELSE Head(alerts).indicators \o AllIndicators(Tail(alerts))

\* The keys of Counter(all_indicators), in insertion (first seen) order.
RECURSIVE CounterKeys(_, _)
CounterKeys(inds, seen) ==
    IF inds = <<>> THEN seen
    ELSE CounterKeys(Tail(inds),
                     IF Head(inds) \in Range(seen) THEN seen ELSE Append(seen, Head(inds)))

CountOf(inds, x) == Len(SelectSeq(inds, LAMBDA y : y = x))

\* sorted(items, key=count, reverse=True): stable, so ties keep their order.
RECURSIVE SortByCount(_, _)
SortByCount(keys, inds) ==
    IF keys = <<>> THEN <<>>
    ELSE LET best == CHOOSE i \in DOMAIN keys :
                        /\ \A j \in DOMAIN keys : CountOf(inds, keys[j]) <= CountOf(inds, keys[i])
                        /\ \A j \in 1..(i - 1) : CountOf(inds, keys[j]) < CountOf(inds, keys[i])
         IN  <<keys[best]>> \o
             SortByCount(SubSeq(keys, 1, best - 1) \o SubSeq(keys, best + 1, Len(keys)), inds)

\* A plausible slip: the indicators are cut to ten without being ranked.
ExtractKeyIndicatorsUnranked(alerts) ==
    LET inds == AllIndicators(alerts)
        ranked == CounterKeys(inds, <<>>)
    IN  SubSeq(ranked, 1, Min(10, Len(ranked)))

\* _extract_key_indicators(alerts): Counter(..).most_common(10)
ExtractKeyIndicators(alerts) ==
    LET inds == AllIndicators(alerts)
        ranked == SortByCount(CounterKeys(inds, <<>>), inds)
    IN  SubSeq(ranked, 1, Min(10, Len(ranked)))

\* A plausible slip: the highest bracket starts at the classifier's 0.7.
GenerateFinalRecommendationsFromScam(session) ==
    IF session.total_risk_score >= 700000 THEN "HIGH FRAUD RISK"
    ELSE IF session.total_risk_score >= 600000 THEN "SUSPICIOUS CALL"
    ELSE IF session.total_risk_score >= 400000 THEN "POTENTIAL RISK"
    ELSE "LOW RISK"

\* _generate_final_recommendations(session): the bracket of the score
GenerateFinalRecommendations(session) ==
    IF session.total_risk_score >= 800000 THEN "HIGH FRAUD RISK"
    ELSE IF session.total_risk_score >= 600000 THEN "SUSPICIOUS CALL"
    ELSE IF session.total_risk_score >= 400000 THEN "POTENTIAL RISK"
    ELSE "LOW RISK"

\* A plausible slip: the level of the report is lifted to HIGH by a HIGH or
\* CRITICAL alert the session holds.
FinalRiskLevelFromAlerts(session) ==
    IF /\ session.risk_level \in {"LOW", "MEDIUM"}
       /\ \E i \in DOMAIN session.alerts : session.alerts[i].severity \in {"HIGH", "CRITICAL"}
    THEN "HIGH" ELSE session.risk_level

\* "final_risk_level": session.risk_level (line 283)
FinalRiskLevel(session) == session.risk_level

\* A plausible slip: the report counts the alerts of the session wrongly.
FinalReportMiscount(session_id, session) ==
    [session_id |-> session_id,
     final_transcript |-> StripAcc(session.accumulated_transcript),
     total_alerts |-> Len(session.alerts) + 1,
     final_risk_level |-> FinalRiskLevel(session),
     final_risk_score |-> session.total_risk_score,
     alerts_by_severity |-> GroupAlertsBySeverity(session.alerts),
     key_fraud_indicators |-> ExtractKeyIndicators(session.alerts),
     recommendations |-> GenerateFinalRecommendations(session)]

\* The final_report dict of end_session (duration and timestamp left out).
FinalReport(session_id, session) ==
    [session_id |-> session_id,
     final_transcript |-> StripAcc(session.accumulated_transcript),
     total_alerts |-> Len(session.alerts),
     final_risk_level |-> FinalRiskLevel(session),
     final_risk_score |-> session.total_risk_score,
     alerts_by_severity |-> GroupAlertsBySeverity(session.alerts),
     key_fraud_indicators |-> ExtractKeyIndicators(session.alerts),
     recommendations |-> GenerateFinalRecommendations(session)]

\* ------------------------------------------------------------------------
\* State
\* ------------------------------------------------------------------------
VARIABLES
    sessions,      \* the keys of self.sessions
    session_obj,   \* the LiveSession objects ever created, by session id
    sink,          \* per session, the messages handed to websocket.send_json
    pc,            \* per task, where its coroutine is suspended ("idle": none)
    frame,         \* per task, the locals and the outcome of its coroutine
    ml_pipeline,   \* whether the global classifier holds an ml_pipeline
    n_calls,       \* calls made so far: <<start, ingest, end>>
    next_alert,    \* number of FraudAlert objects created so far
    fn_in,         \* input of a pure function applied on its own
    fn_out,        \* its result
    active,        \* manager.active: the list of the ConnectionManager
    sockets        \* per WebSocket object accepted so far, "open" or "closed"

vars == <<sessions, session_obj, sink, pc, frame, ml_pipeline, n_calls, next_alert,
          fn_in, fn_out, active, sockets>>

manager_vars == <<active, sockets>>

monitor_vars == <<sessions, session_obj, sink, pc, frame, ml_pipeline, n_calls, next_alert>>

Tasks == 1..NTasks

\* A session id no start_session has returned.
UnknownId == 0

\* ------------------------------------------------------------------------
\* Inputs
\* ------------------------------------------------------------------------
Seg(kind, text) == [kind |-> kind, text |-> text]

\* Transcript segments: a dict or object with a text, a raw str (one of them
\* empty), a dict or object whose text is not a str ("nonstr"), or a value
\* process_transcript_segment cannot read a text from ("other").
Segments ==
    { Seg("dict", <<"hello", "this", "is", "your", "bank", "calling", "about", "your",
                    "account", "today">>),
      Seg("dict", <<"send", "bitcoin", "now">>),
      Seg("str", <<"urgent", "refund", "prize">>),
      Seg("str", <<"account", "suspended">>),
      Seg("str", <<"the", "IRS">>),
      Seg("str", <<"">>),
      Seg("nonstr", <<>>),
      Seg("other", <<>>) }

\* What the external classifier may answer to one classify call.
MonitorML ==
    { MLOut(TRUE, FALSE, FALSE, 8000, 1000, 1000),
      MLOut(TRUE, FALSE, FALSE, 1000, 8000, 1000) }

MLChoices == IF ml_pipeline THEN MonitorML ELSE {NoML}

\* ------------------------------------------------------------------------
\* Records
\* ------------------------------------------------------------------------
\* A plausible slip: the session is created inactive.
NewSessionInactive ==
    [accumulated_transcript |-> <<>>, alerts |-> <<>>, risk_level |-> "LOW",
     total_risk_score |-> 0, is_active |-> FALSE]

\* LiveSession(session_id, start_time)
NewSession ==
    [accumulated_transcript |-> <<>>, alerts |-> <<>>, risk_level |-> "LOW",
     total_risk_score |-> 0, is_active |-> TRUE]

NoFrame == [op |-> "none", sid |-> UnknownId]

\* The coroutine of frame f has returned value at the source line given.
Returned(f, value, line) ==
    [op |-> f.op, sid |-> f.sid, outcome |-> "returned", value |-> value, line |-> line]

\* The coroutine of frame f has raised exc at the source line given.
Raised(f, exc, line) ==
    [op |-> f.op, sid |-> f.sid, outcome |-> "raised", exception |-> exc, line |-> line]

None == "None"

SessionNotFound == [error |-> "Session not found"]

\* No pure function is being applied on its own.
NoCall == [fn |-> "none"]

NoResult == [done |-> FALSE]

\* A new coroutine takes the first free task slot.
FreeSlot(t) == pc[t] = "idle" /\ \A u \in 1..(t - 1) : pc[u] # "idle"

KnownIds == DOMAIN session_obj

Init ==
    /\ sessions = {}
    /\ session_obj = <<>>
    /\ sink = <<>>
    /\ pc = [t \in Tasks |-> "idle"]
    /\ frame = [t \in Tasks |-> NoFrame]
    /\ ml_pipeline \in BOOLEAN
    /\ n_calls = <<0, 0, 0>>
    /\ next_alert = 0
    /\ fn_in = NoCall
    /\ fn_out = NoResult
    /\ active = <<>>
    /\ sockets = <<>>

\* ------------------------------------------------------------------------
\* RealTimeFraudMonitor: the coroutines, one action per stretch between awaits
\* ------------------------------------------------------------------------
\* A plausible slip: the field is a class attribute shared by all sessions.
SetObjShared(objs, sid, field, value) ==
    [s \in DOMAIN objs |-> [objs[s] EXCEPT ![field] = value]]
SetObj(objs, sid, field, value) == [objs EXCEPT ![sid][field] = value]

\* A plausible slip: the message is put in front of the ones already handed.
HandInFront(sinks, sid, msg) == [sinks EXCEPT ![sid] = <<msg>> \o @]
Hand(sinks, sid, msg) == [sinks EXCEPT ![sid] = Append(@, msg)]

\* The coroutine of task t ends: it returns value, or raises exc.
Finish(t, outcome) ==
    /\ pc' = [pc EXCEPT ![t] = "idle"]
    /\ frame' = [frame EXCEPT ![t] = outcome]

\* start_session, up to the await of send_json (lines 82-89), while fewer
\* than limit sessions were created.
StartSessionUpTo(t, limit) ==
    /\ FreeSlot(t)
    /\ Len(session_obj) < limit
    /\ LET session_id == Len(session_obj) + 1
       IN  /\ session_obj' = Append(session_obj, NewSession)
           /\ sessions' = sessions \cup {session_id}
           /\ sink' = Append(sink, << [type |-> "session_started"] >>)
           /\ pc' = [pc EXCEPT ![t] = "start_send"]
           /\ frame' = [frame EXCEPT ![t] =
                           [op |-> "start", sid |-> session_id]]
    /\ n_calls' = [n_calls EXCEPT ![1] = @ + 1]
    /\ UNCHANGED <<ml_pipeline, next_alert, fn_in, fn_out, manager_vars>>

StartSession(t) == StartSessionUpTo(t, MaxSessions)

\* start_session resumes: send_json returned or raised (lines 89-96).
StartSent(t) ==
    /\ pc[t] = "start_send"
    /\ \E ok \in BOOLEAN :
          Finish(t, IF ok THEN Returned(frame[t], frame[t].sid, 96)
                    ELSE Raised(frame[t], "SendError", 89))
    /\ UNCHANGED <<sessions, session_obj, sink, ml_pipeline, n_calls, next_alert, fn_in, fn_out, manager_vars>>

\* A plausible slip: the list is replaced by one holding the new alert only.
ReplaceAlerts(alerts, alert) == <<alert>>

\* session.alerts.append(alert) (lines 165 and 219)
AppendAlert(alerts, alert) == Append(alerts, alert)

\* A plausible slip: every SCAM_KEYWORDS alert is given the score 0.7.
KeywordAlertFlatScore(session_id, severity, detected_keywords, text) ==
    [alert_id |-> next_alert + 1, session_id |-> session_id, severity |-> severity,
     alert_type |-> "SCAM_KEYWORDS", confidence |-> 800000,
     risk_score |-> 700000,
     transcript_segment |-> text,
     indicators |-> detected_keywords]

\* The SCAM_KEYWORDS alert of _analyze_segment_immediate (lines 151-163).
KeywordAlert(session_id, severity, detected_keywords, text) ==
    [alert_id |-> next_alert + 1, session_id |-> session_id, severity |-> severity,
     alert_type |-> "SCAM_KEYWORDS", confidence |-> 800000,
     risk_score |-> IF severity = "HIGH" THEN 700000 ELSE 900000,
     transcript_segment |-> text,
     indicators |-> detected_keywords]

\* The CONTEXT_ANALYSIS alert of _analyze_full_context (lines 205-217).
ContextAlert(session_id, result) ==
    [alert_id |-> next_alert + 1, session_id |-> session_id,
     severity |-> DetermineRiskLevel(result.risk_score),
     alert_type |-> "CONTEXT_ANALYSIS", confidence |-> result.confidence,
     risk_score |-> result.risk_score,
     indicators |-> SubSeq(result.fraud_indicators, 1, Min(3, Len(result.fraud_indicators)))]

\* The context_analysis message of lines 186-201.
ContextMessage(session, result) ==
    [type |-> "context_analysis", risk_level |-> session.risk_level,
     risk_score |-> result.risk_score, confidence |-> result.confidence,
     label |-> result.label,
     key_indicators |-> SubSeq(result.fraud_indicators, 1, Min(5, Len(result.fraud_indicators))),
     recommendation |-> result.recommendation,
     transcript_length |-> Len(Words(session.accumulated_transcript))]

\* previous_risk = session.total_risk_score, read before the update (line 181).
PreviousRisk(session, result) == session.total_risk_score

\* A plausible slip: the level is taken from the score before it is updated.
RescoredLevelFirst(session, result) ==
    [session EXCEPT !.total_risk_score = result.risk_score,
                    !.risk_level = DetermineRiskLevel(session.total_risk_score)]

\* Lines 182-183: the score and the level of the session are set one after
\* the other, with no await between them.
Rescored(session, result) ==
    [session EXCEPT !.total_risk_score = result.risk_score,
                    !.risk_level = DetermineRiskLevel(result.risk_score)]

\* _analyze_full_context, up to the await of send_json (lines 170-186), run
\* by task t on the objects objs and sinks sinks.
AnalyzeFullContext(t, f, objs, sinks, alerts_made) ==
    LET session_id == f.sid
    IN  IF session_id \notin sessions
        THEN \* self.sessions[session_id] raises KeyError, outside the try
             /\ Finish(t, Raised(f, "KeyError", 170))
             /\ session_obj' = objs /\ sink' = sinks /\ next_alert' = alerts_made
        ELSE IF CharLen(StripAcc(objs[session_id].accumulated_transcript)) < ContextFloor
        THEN /\ Finish(t, Returned(f, None, 173))
             /\ session_obj' = objs /\ sink' = sinks /\ next_alert' = alerts_made
        ELSE \E ml \in MLChoices :
             LET session == objs[session_id]
                 result == Classify(StripAcc(session.accumulated_transcript), ml, FALSE)
                 previous_risk == PreviousRisk(session, result)
                 updated == Rescored(session, result)
             IN  /\ session_obj' = [objs EXCEPT ![session_id] = updated]
                 /\ sink' = Hand(sinks, session_id, ContextMessage(updated, result))
                 /\ next_alert' = alerts_made
                 /\ pc' = [pc EXCEPT ![t] = "ctx_send"]
                 /\ frame' = [frame EXCEPT ![t] =
                                 [op |-> f.op, sid |-> f.sid,
                                  previous_risk |-> previous_risk, result |-> result]]

\* A plausible slip: the is_active test of line 104 is missing.
AcceptsSegmentsIgnoringActive(session_id) == session_id \in sessions

\* Lines 100-105: the session is in the store and active.
AcceptsSegments(session_id) ==
    session_id \in sessions /\ session_obj[session_id].is_active

\* A plausible slip: a MEDIUM triage result raises an alert as well.
TriageAlertsFromMedium(severity) == severity \in {"MEDIUM", "HIGH", "CRITICAL"}

\* Line 150: severity in ["HIGH", "CRITICAL"]
TriageAlerts(severity) == severity \in {"HIGH", "CRITICAL"}

\* A plausible slip: the new text is put in front of the transcript.
PrependText(accumulated_transcript, text) == text \o accumulated_transcript

\* Line 119: session.accumulated_transcript += " " + text
AppendText(accumulated_transcript, text) == accumulated_transcript \o text

\* The severity of the keyword triage of a segment text; no keyword detected
\* (line 147) is the LOW of the rule.
TriageSeverity(text) ==
    LET detected_keywords == DetectedKeywords(text)
    IN  IF detected_keywords = <<>> THEN "LOW" ELSE CalculateSeverity(detected_keywords)

\* process_transcript_segment, from the call to its first await (lines 100-125,
\* with _analyze_segment_immediate and _analyze_full_context inlined).
ProcessTranscriptSegment(t, session_id, segment) ==
    /\ FreeSlot(t)
    /\ n_calls[2] < MaxIngest
    /\ n_calls' = [n_calls EXCEPT ![2] = @ + 1]
    /\ UNCHANGED <<sessions, ml_pipeline, fn_in, fn_out, manager_vars>>
    /\ LET f == [op |-> "ingest", sid |-> session_id]
       IN  IF ~AcceptsSegments(session_id) \/ segment.kind = "other"
           THEN /\ Finish(t, Returned(f, None,
                                       IF session_id \notin sessions THEN 101
                                       ELSE IF ~AcceptsSegments(session_id) THEN 105
                                       ELSE 116))
                /\ UNCHANGED <<session_obj, sink, next_alert>>
           ELSE IF segment.kind = "nonstr"
           THEN \* " " + text raises TypeError at line 119, before the assignment
                /\ Finish(t, Raised(f, "TypeError", 119))
                /\ UNCHANGED <<session_obj, sink, next_alert>>
           ELSE
           LET text == segment.text
               appended == SetObj(session_obj, session_id, "accumulated_transcript",
                                  AppendText(session_obj[session_id].accumulated_transcript,
                                             text))
               detected_keywords == DetectedKeywords(text)
               severity == CalculateSeverity(detected_keywords)
           IN  IF detected_keywords # <<>> /\ TriageAlerts(severity)
               THEN LET alert == KeywordAlert(session_id, severity, detected_keywords, text)
                    IN  /\ session_obj' = SetObj(appended, session_id, "alerts",
                                                 AppendAlert(appended[session_id].alerts,
                                                             alert))
                        /\ sink' = Hand(sink, session_id,
                                        [type |-> "fraud_alert", alert |-> alert])
                        /\ next_alert' = next_alert + 1
                        /\ pc' = [pc EXCEPT ![t] = "imm_send"]
                        /\ frame' = [frame EXCEPT ![t] = f]
               ELSE AnalyzeFullContext(t, f, appended, sink, next_alert)

\* _send_alert of line 166 returned or raised; on return _analyze_full_context
\* runs to its await.  A raise leaves process_transcript_segment.
ImmediateAlertSent(t) ==
    /\ pc[t] = "imm_send"
    /\ \E ok \in BOOLEAN :
          IF ok THEN AnalyzeFullContext(t, frame[t], session_obj, sink, next_alert)
          ELSE /\ Finish(t, Raised(frame[t], "SendError", 166))
               /\ UNCHANGED <<session_obj, sink, next_alert>>
    /\ UNCHANGED <<sessions, ml_pipeline, n_calls, fn_in, fn_out, manager_vars>>

\* send_json of line 186 returned or raised; a raise is caught at line 222.
\* On return the escalation gate decides the CONTEXT_ANALYSIS alert.
ContextSent(t) ==
    /\ pc[t] = "ctx_send"
    /\ \E ok \in BOOLEAN :
          LET f == frame[t]
              session == session_obj[f.sid]
          IN  IF ok /\ EscalationGate(f.result.risk_score, f.previous_risk)
              THEN LET alert == ContextAlert(f.sid, f.result)
                   IN  /\ session_obj' = SetObj(session_obj, f.sid, "alerts",
                                                AppendAlert(session.alerts, alert))
                       /\ sink' = Hand(sink, f.sid, [type |-> "fraud_alert", alert |-> alert])
                       /\ next_alert' = next_alert + 1
                       /\ pc' = [pc EXCEPT ![t] = "ctx_alert_send"]
                       /\ frame' = [frame EXCEPT ![t] = [op |-> f.op, sid |-> f.sid]]
              ELSE /\ Finish(t, Returned(f, None, IF ok THEN 204 ELSE 223))
                   /\ UNCHANGED <<session_obj, sink, next_alert>>
    /\ UNCHANGED <<sessions, ml_pipeline, n_calls, fn_in, fn_out, manager_vars>>

\* _send_alert of line 220 returned or raised (caught at line 222).
ContextAlertSent(t) ==
    /\ pc[t] = "ctx_alert_send"
    /\ \E ok \in BOOLEAN : Finish(t, Returned(frame[t], None, IF ok THEN 220 ELSE 223))
    /\ UNCHANGED <<sessions, session_obj, sink, ml_pipeline, n_calls, next_alert, fn_in, fn_out, manager_vars>>

\* end_session, from the call to the await of send_json (lines 271-291); op
\* names the call site in the frame.
EndSessionAt(t, session_id, op) ==
    /\ FreeSlot(t)
    /\ n_calls[3] < MaxEnd
    /\ n_calls' = [n_calls EXCEPT ![3] = @ + 1]
    /\ UNCHANGED <<sessions, ml_pipeline, next_alert, fn_in, fn_out, manager_vars>>
    /\ LET f == [op |-> op, sid |-> session_id]
       IN  IF session_id \notin sessions
           THEN /\ Finish(t, Returned(f, SessionNotFound, 272))
                /\ UNCHANGED <<session_obj, sink>>
           ELSE LET ended == SetObj(session_obj, session_id, "is_active", FALSE)
                    final_report == FinalReport(session_id, ended[session_id])
                IN  /\ session_obj' = ended
                    /\ sink' = Hand(sink, session_id,
                                    [type |-> "session_ended", final_report |-> final_report])
                    /\ pc' = [pc EXCEPT ![t] = "end_send"]
                    /\ frame' = [frame EXCEPT ![t] =
                                    [op |-> f.op, sid |-> f.sid,
                                     final_report |-> final_report]]

EndSession(t, session_id) == EndSessionAt(t, session_id, "end")

\* end_session resumes: send_json returned or raised; on return the session
\* is deleted from the store (KeyError if it is no longer there) and the
\* report returned (lines 291-300).
EndSent(t) ==
    /\ pc[t] = "end_send"
    /\ \E ok \in BOOLEAN :
          LET f == frame[t]
          IN  IF ~ok THEN Finish(t, Raised(f, "SendError", 291)) /\ UNCHANGED sessions
              ELSE IF f.sid \notin sessions
              THEN Finish(t, Raised(f, "KeyError", 298)) /\ UNCHANGED sessions
              ELSE /\ sessions' = sessions \ {f.sid}
                   /\ Finish(t, Returned(f, f.final_report, 300))
    /\ UNCHANGED <<session_obj, sink, ml_pipeline, n_calls, next_alert, fn_in, fn_out, manager_vars>>

CallIds == KnownIds \cup {UnknownId}

Next ==
    \/ \E t \in Tasks : StartSession(t)
    \/ \E t \in Tasks : StartSent(t)
    \/ \E t \in Tasks : \E session_id \in CallIds : \E segment \in Segments :
          ProcessTranscriptSegment(t, session_id, segment)
    \/ \E t \in Tasks : ImmediateAlertSent(t)
    \/ \E t \in Tasks : ContextSent(t)
    \/ \E t \in Tasks : ContextAlertSent(t)
    \/ \E t \in Tasks : \E session_id \in CallIds : EndSession(t, session_id)
    \/ \E t \in Tasks : EndSent(t)

Spec == Init /\ [][Next]_vars

\* ------------------------------------------------------------------------
\* Properties of the monitor (checked under Spec)
\* ------------------------------------------------------------------------
\* This step is the start of a process_transcript_segment call.
IngestStarts == n_calls'[2] # n_calls[2]

\* This step is the start of an end_session call.
EndStarts == n_calls'[3] # n_calls[3]

\* Task t is suspended inside process_transcript_segment.
InIngest(t) == pc[t] \in {"imm_send", "ctx_send", "ctx_alert_send"}

\* The session is missing from the store or no longer active.
Closed(sid) == sid \notin sessions \/ ~session_obj[sid].is_active

\* C1: once end_session has built the final report of a session (is_active
\* is False from then on), nothing changes the session's accumulated
\* transcript, alerts, total risk score or risk level, an ingest that was
\* suspended at a send when end_session ran included.
C1_NoChangeAfterSnapshot ==
    [][\A sid \in KnownIds :
          ~session_obj[sid].is_active => session_obj'[sid] = session_obj[sid]]_vars

\* C2: a process_transcript_segment call for an id that is not in the store,
\* or whose session end_session has made inactive, returns None at once and
\* changes no session, hands nothing to the sink and creates no alert.
C2_IngestOnClosedSessionIsNoOp ==
    [][IngestStarts =>
          \A t \in Tasks :
             (FreeSlot(t) /\ Closed(frame'[t].sid)) =>
                 /\ pc'[t] = "idle"
                 /\ frame'[t].outcome = "returned"
                 /\ frame'[t].value = None
                 /\ UNCHANGED <<sessions, session_obj, sink, next_alert>>]_vars

\* An ingest found its session in the store but inactive (the return of line
\* 105) while end_session has not yet removed it.
C2_Witness ==
    \E t \in Tasks :
       /\ pc[t] = "idle"
       /\ frame[t].op = "ingest"
       /\ frame[t].outcome = "returned"
       /\ frame[t].line = 105
       /\ frame[t].sid \in sessions
       /\ \E u \in Tasks : pc[u] = "end_send" /\ frame[u].sid = frame[t].sid

\* C3: two process_transcript_segment calls of one session never interleave:
\* no text is appended to a session while an earlier ingest of that session
\* is still suspended before the end of its triage and re-score.
C3_IngestsDoNotInterleave ==
    [][\A sid \in KnownIds :
          session_obj'[sid].accumulated_transcript # session_obj[sid].accumulated_transcript
             => ~\E u \in Tasks : InIngest(u) /\ frame[u].sid = sid]_vars

\* C4: an end_session call for an id that was never started, has already
\* ended, or is being ended by a call suspended at its send, returns the
\* not-found error without raising and without changing any state, so that at
\* most one call per id builds and returns a final report.
C4_SecondEndIsNotFound ==
    [][EndStarts =>
          \A t \in Tasks :
             (FreeSlot(t) /\ Closed(frame'[t].sid)) =>
                 /\ pc'[t] = "idle"
                 /\ frame'[t].outcome = "returned"
                 /\ frame'[t].value = SessionNotFound
                 /\ UNCHANGED <<sessions, session_obj, sink>>]_vars

\* C5: the report end_session builds on an active session carries the
\* stripped transcript, the number of alerts, the risk level and the risk
\* score the session has at that moment; the report the call returns is that
\* report, the session is out of the store when it returns, and no step of
\* any coroutine changes the report while the call is suspended or after it
\* has returned.
C5_ReportIsSnapshot ==
    [][\A t \in Tasks :
          /\ (EndStarts /\ FreeSlot(t) /\ ~Closed(frame'[t].sid)) =>
                 /\ pc'[t] = "end_send"
                 /\ LET session == session_obj[frame'[t].sid]
                        report == frame'[t].final_report
                    IN  /\ report.final_transcript = StripAcc(session.accumulated_transcript)
                        /\ report.total_alerts = Len(session.alerts)
                        /\ report.final_risk_level = session.risk_level
                        /\ report.final_risk_score = session.total_risk_score
          /\ (pc[t] = "end_send" /\ pc'[t] = "end_send") =>
                 frame'[t].final_report = frame[t].final_report
          /\ (pc[t] = "end_send" /\ pc'[t] = "idle" /\ frame'[t].outcome = "returned") =>
                 /\ frame'[t].value = frame[t].final_report
                 /\ frame'[t].sid \notin sessions'
          /\ (pc[t] = "idle" /\ frame[t].op = "end" /\ frame[t].line = 300
                /\ ~(FreeSlot(t) /\ n_calls' # n_calls)) =>
                 frame'[t] = frame[t]]_vars

\* end_session has returned the report of a session with an alert, and the
\* session is gone from the store.
C5_Witness ==
    \E t \in Tasks :
       /\ pc[t] = "idle"
       /\ frame[t].op = "end"
       /\ frame[t].line = 300
       /\ frame[t].value.total_alerts >= 1
       /\ frame[t].value.final_risk_score > 0
       /\ frame[t].sid \notin sessions

\* C6: a full-context re-score appends exactly one CONTEXT_ANALYSIS alert if
\* the new risk score is greater than alert_threshold and greater than the
\* previous risk score plus 0.2, and appends none otherwise.
C6_EscalationIffGate ==
    [][\A t \in Tasks :
          (pc[t] = "ctx_send" /\ pc'[t] # "ctx_send") =>
              LET new == frame[t].result.risk_score
                  previous == frame[t].previous_risk
                  before == session_obj[frame[t].sid].alerts
                  after == session_obj'[frame[t].sid].alerts
              IN  IF new > AlertThreshold /\ new > previous + EscalationDelta
                  THEN /\ Len(after) = Len(before) + 1
                       /\ after[Len(after)].alert_type = "CONTEXT_ANALYSIS"
                  ELSE after = before]_vars

\* C7: a process_transcript_segment call that appends a segment text to an
\* active session appends a SCAM_KEYWORDS alert if and only if the triage
\* severity of that text is HIGH or CRITICAL; the alert is then appended and
\* handed to the sink in that step, before the re-score has touched the score
\* or handed its context_analysis message, and no other step appends one.
C7_TriageAlertIffHighOrCritical ==
    [][/\ IngestStarts =>
             \A t \in Tasks :
                (FreeSlot(t) /\ ~Closed(frame'[t].sid)) =>
                    LET sid == frame'[t].sid
                        before == session_obj[sid]
                        after == session_obj'[sid]
                        text == SubSeq(after.accumulated_transcript,
                                       Len(before.accumulated_transcript) + 1,
                                       Len(after.accumulated_transcript))
                    IN  IF text # <<>> /\ TriageSeverity(text) \in {"HIGH", "CRITICAL"}
                        THEN /\ Len(after.alerts) = Len(before.alerts) + 1
                             /\ LET alert == after.alerts[Len(after.alerts)]
                                IN  /\ alert.alert_type = "SCAM_KEYWORDS"
                                    /\ alert.severity = TriageSeverity(text)
                                    /\ sink'[sid] = Append(sink[sid], [type |-> "fraud_alert",
                                                                       alert |-> alert])
                             /\ pc'[t] = "imm_send"
                             /\ after.total_risk_score = before.total_risk_score
                             /\ after.risk_level = before.risk_level
                        ELSE after.alerts = before.alerts
       /\ ~IngestStarts =>
             \A sid \in KnownIds :
                LET after == session_obj'[sid].alerts
                IN  Len(after) > Len(session_obj[sid].alerts) =>
                        after[Len(after)].alert_type # "SCAM_KEYWORDS"]_vars

\* A HIGH or CRITICAL segment: its alert is on the session and with the sink,
\* the ingest is suspended at that send, and no re-score has run yet.
C7_Witness ==
    \E t \in Tasks :
       /\ pc[t] = "imm_send"
       /\ LET session == session_obj[frame[t].sid]
              log == sink[frame[t].sid]
          IN  /\ session.alerts # <<>>
              /\ session.alerts[Len(session.alerts)].alert_type = "SCAM_KEYWORDS"
              /\ log[Len(log)] = [type |-> "fraud_alert",
                                  alert |-> session.alerts[Len(session.alerts)]]
              /\ session.total_risk_score = 0

\* ------------------------------------------------------------------------
\* The pure functions applied on their own
\* ------------------------------------------------------------------------
\* The sets of at most n positions of fraud_keywords.
RECURSIVE KeywordChoices(_)
KeywordChoices(n) ==
    IF n = 0 THEN {{}}
    ELSE LET fewer == KeywordChoices(n - 1)
         IN  fewer \cup {S \cup {i} : S \in fewer, i \in DOMAIN fraud_keywords}

\* The detected keywords at the positions S, in the order of fraud_keywords
\* as the comprehension of line 145 yields them.
KeywordList(S) ==
    LET positions == SelectSeq([i \in DOMAIN fraud_keywords |-> i], LAMBDA i : i \in S)
    IN  [k \in DOMAIN positions |-> fraud_keywords[positions[k]]]

ScorerVocab == {"urgent", "money", "account", "bank", "social", "security", "number", "send"}

RECURSIVE TextsUpTo(_)
TextsUpTo(n) ==
    IF n = 1 THEN {<<w>> : w \in ScorerVocab}
    ELSE LET shorter == TextsUpTo(n - 1)
         IN  shorter \cup {Append(text, w) : text \in shorter, w \in ScorerVocab}

\* A text that matches patterns only (weight 4.2) and hits no category word.
PatternOnlyText == <<"irs", "police">>

\* "Your account has been suspended. Please verify your social security
\* number and bank account immediately."
SuspendedAccountText ==
    <<"Your", "account", "has", "been", "suspended.", "Please", "verify", "your", "social",
      "security", "number", "and", "bank", "account", "immediately.">>

\* "Hi, calling to confirm your dentist appointment tomorrow at 3pm."
DentistText ==
    <<"Hi,", "calling", "to", "confirm", "your", "dentist", "appointment", "tomorrow", "at",
      "3pm.">>

\* A text with no pattern match and no category word.
PlainText == <<"hello", "is", "the", "dentist">>

\* Longer transcripts: the composite 0.7 and a pattern weight of 13.0.
CraftedTexts ==
    { <<"send", "money", "now", "social", "security", "number">>,
      <<"suspended", "account", "verify", "bank", "account", "social", "security", "number",
        "send", "money", "now">>,
      PatternOnlyText, SuspendedAccountText, DentistText, PlainText }

ScorerTexts == {<<"">>} \cup TextsUpTo(MaxTextLen) \cup CraftedTexts

\* Outputs of the external classifier: absent, failing, certain of a class,
\* and undecided with a small probability of Scam; a classifier that fails
\* in one of its two calls only, or in both with the probabilities it would
\* have given; a probability equal to the pattern-derived confidence 0.7 of
\* a composite of 0.3.
ScorerML ==
    { NoML,
      MLOut(TRUE, TRUE, TRUE, 0, 0, 0),
      MLOut(TRUE, FALSE, FALSE, 0, 10000, 0),
      MLOut(TRUE, FALSE, FALSE, 10000, 0, 0),
      MLOut(TRUE, FALSE, FALSE, 0, 0, 10000),
      MLOut(TRUE, FALSE, FALSE, 5000, 10, 4990),
      MLOut(TRUE, TRUE, TRUE, 0, 10000, 0),
      MLOut(TRUE, TRUE, FALSE, 0, 10000, 0),
      MLOut(TRUE, FALSE, TRUE, 0, 10000, 0),
      MLOut(TRUE, FALSE, FALSE, 3000, 0, 7000),
      MLOut(TRUE, FALSE, FALSE, 9000, 1000, 0) }

\* Risk scores given to _determine_risk_level: a grid over [-0.05, 1.2] and
\* the values next to the three thresholds.
RiskScores ==
    {k * 50000 : k \in -1..24}
    \cup {threshold + d : threshold \in {400000, 600000, 800000}, d \in {-1000, -1, 1, 1000}}

\* Indicator strings, more of them than the report keeps.
MaxIndicators == 12

IndicatorName(k) == "indicator " \o ToString(k)

\* The indicators lists of the alerts given to _extract_key_indicators: all
\* the indicators once, the last two in reverse, and lists that make ties and
\* repeats.
IndicatorLists ==
    {[k \in 1..MaxIndicators |-> IndicatorName(k)],
     <<IndicatorName(MaxIndicators), IndicatorName(MaxIndicators - 1)>>,
     <<IndicatorName(MaxIndicators), IndicatorName(MaxIndicators)>>,
     <<IndicatorName(3)>>,
     <<IndicatorName(3), IndicatorName(1)>>,
     <<>>}

MaxReportAlerts == 3

\* Alert lists of up to MaxReportAlerts alerts (only the field the function reads).
ReportAlerts ==
    UNION {[1..n -> {[indicators |-> l] : l \in IndicatorLists}] : n \in 0..MaxReportAlerts}

MaxMatched == 2

\* The choices of at most n positions of fraud_patterns, each written once:
\* the positions in increasing order after as many 0 (no pattern) as needed.
PatternPicks(n) ==
    {g \in [1..n -> 0..Len(fraud_patterns)] :
        \A k \in 1..(n - 1) : g[k] = 0 \/ g[k] < g[k + 1]}

\* The positions of a choice.
Picked(g) == {g[k] : k \in DOMAIN g} \ {0}

\* The patterns at the positions S, in catalog order, as the loop of
\* match_fraud_patterns meets them: what it keeps of each is the description
\* and the weight.
PatternList(S) ==
    LET positions == SelectSeq([i \in DOMAIN fraud_patterns |-> i], LAMBDA i : i \in S)
    IN  [k \in DOMAIN positions |-> [ind |-> fraud_patterns[positions[k]].ind,
                                     weight |-> fraud_patterns[positions[k]].weight]]

PureInputs ==
    {[fn |-> "calculate_severity", keywords |-> KeywordList(S)] : S \in KeywordChoices(MaxKw)}
    \cup {[fn |-> "extract_key_indicators", alerts |-> alerts] : alerts \in ReportAlerts}
    \cup {[fn |-> "classify", transcript |-> text, ml |-> ml, raises |-> raises] :
             text \in ScorerTexts, ml \in ScorerML, raises \in BOOLEAN}
    \cup {[fn |-> "determine_risk_level", risk_score |-> risk_score] :
             risk_score \in RiskScores}

InitPure ==
    /\ sessions = {}
    /\ session_obj = <<>>
    /\ sink = <<>>
    /\ pc = [t \in Tasks |-> "idle"]
    /\ frame = [t \in Tasks |-> NoFrame]
    /\ ml_pipeline = FALSE
    /\ n_calls = <<0, 0, 0>>
    /\ next_alert = 0
    /\ \/ fn_in \in PureInputs
       \/ \E g \in PatternPicks(MaxMatched) : \E A \in SUBSET Picked(g) :
             \* two sets of matches, one within the other
             fn_in = [fn |-> "pattern_score", matched |-> PatternList(A),
                      more |-> PatternList(Picked(g))]
    /\ fn_out = NoResult
    /\ active = <<>>
    /\ sockets = <<>>

\* _calculate_severity(keywords, text) applied to the input.
ApplyCalculateSeverity ==
    /\ fn_in.fn = "calculate_severity"
    /\ ~fn_out.done
    /\ fn_out' = [done |-> TRUE, value |-> CalculateSeverity(fn_in.keywords)]
    /\ UNCHANGED <<monitor_vars, fn_in, manager_vars>>

\* classify(transcript) applied to the input.
ApplyClassify ==
    /\ fn_in.fn = "classify"
    /\ ~fn_out.done
    /\ fn_out' = [done |-> TRUE, value |-> Classify(fn_in.transcript, fn_in.ml, fn_in.raises)]
    /\ UNCHANGED <<monitor_vars, fn_in, manager_vars>>

\* _determine_risk_level(risk_score) applied to the input.
ApplyDetermineRiskLevel ==
    /\ fn_in.fn = "determine_risk_level"
    /\ ~fn_out.done
    /\ fn_out' = [done |-> TRUE, value |-> DetermineRiskLevel(fn_in.risk_score)]
    /\ UNCHANGED <<monitor_vars, fn_in, manager_vars>>

\* _extract_key_indicators(alerts) applied to the input.
ApplyExtractKeyIndicators ==
    /\ fn_in.fn = "extract_key_indicators"
    /\ ~fn_out.done
    /\ fn_out' = [done |-> TRUE, value |-> ExtractKeyIndicators(fn_in.alerts)]
    /\ UNCHANGED <<monitor_vars, fn_in, manager_vars>>

\* The pattern score of calculate_risk_score applied to the total weight of
\* two sets of matches, one within the other.
ApplyPatternScore ==
    /\ fn_in.fn = "pattern_score"
    /\ ~fn_out.done
    /\ fn_out' = [done |-> TRUE,
                  value |-> [of_matched |-> PatternScore(MatchWeight(fn_in.matched)),
                             of_more |-> PatternScore(MatchWeight(fn_in.more))]]
    /\ UNCHANGED <<monitor_vars, fn_in, manager_vars>>

NextPure ==
    \/ ApplyCalculateSeverity
    \/ ApplyPatternScore
    \/ ApplyExtractKeyIndicators
    \/ ApplyClassify
    \/ ApplyDetermineRiskLevel

SpecPure == InitPure /\ [][NextPure]_vars

\* ------------------------------------------------------------------------
\* Properties of the pure functions (checked under SpecPure)
\* ------------------------------------------------------------------------
SeverityApplied == fn_in.fn = "calculate_severity" /\ fn_out.done

ClassifyApplied == fn_in.fn = "classify" /\ fn_out.done

\* C8: the keyword-triage severity of a list of detected keywords is CRITICAL
\* if one of them is in the critical set, otherwise HIGH if one is in the high
\* set, otherwise MEDIUM if three or more keywords were detected, otherwise
\* LOW; critical wins over high and high over the count.
C8_SeverityRule ==
    SeverityApplied =>
        LET detected == Range(fn_in.keywords)
        IN  fn_out.value =
                IF detected \cap Range(critical_keywords) # {} THEN "CRITICAL"
                ELSE IF detected \cap Range(high_risk_keywords) # {} THEN "HIGH"
                ELSE IF Cardinality(detected) >= 3 THEN "MEDIUM"
                ELSE "LOW"

\* Three keywords, one critical and one high: the result is CRITICAL.
C8_Witness ==
    /\ SeverityApplied
    /\ Len(fn_in.keywords) = 3
    /\ Range(fn_in.keywords) \cap Range(critical_keywords) # {}
    /\ Range(fn_in.keywords) \cap Range(high_risk_keywords) # {}
    /\ fn_out.value = "CRITICAL"

\* C9: every result classify returns has its risk score in [0, 1], whatever
\* the text and whatever the external classifier does (absent, failing, any
\* probabilities), the fallback result of a failed classification included.
C9_RiskScoreInUnitInterval ==
    ClassifyApplied => fn_out.value.risk_score \in 0..ONE

\* All three signals at their caps: the score is exactly 1.
C9_Witness ==
    /\ ClassifyApplied
    /\ ~fn_in.raises
    /\ fn_in.ml.present /\ fn_in.ml.scam = 10000
    /\ fn_out.value.risk_score = ONE

\* C10 as stated: the label follows from the returned risk score by strict
\* thresholds, Scam only above 0.7, Suspicious only in (0.4, 0.7], so that
\* 0.7 is Suspicious and 0.4 is Safe.
C10_LabelOnReturnedScore ==
    ClassifyApplied =>
        LET result == fn_out.value
        IN  /\ result.label = "Scam" => result.risk_score > 700000
            /\ result.label = "Suspicious" =>
                   result.risk_score > 400000 /\ result.risk_score <= 700000
            /\ result.risk_score = 700000 => result.label = "Suspicious"
            /\ result.risk_score = 400000 => result.label = "Safe"

\* C10 (amended): the strict thresholds 0.7 and 0.4 apply to the composite
\* score before it is rounded, and give the returned label whenever the
\* external classifier is absent, fails, or is not more confident than the
\* pattern-derived confidence; without a working external classifier the
\* returned score is the composite, so 0.7 is Suspicious and 0.4 is Safe.
C10_LabelOnCompositeScore ==
    (ClassifyApplied /\ ~fn_in.raises) =>
        LET result == fn_out.value
            ml == fn_in.ml
            composite == CalculateRiskScore(ExtractLinguisticFeatures(fn_in.transcript),
                                            MatchWeight(MatchedPatterns(fn_in.transcript)), ml)
            more_confident == /\ ml.present /\ ~ml.fail_label
                              /\ MLProba(ml) > PatternConfidence(composite)
            by_threshold == IF composite > 700000 THEN "Scam"
                            ELSE IF composite > 400000 THEN "Suspicious"
                            ELSE "Safe"
        IN  /\ ~more_confident => result.label = by_threshold
            /\ (~ml.present \/ (ml.fail_score /\ ml.fail_label)) =>
                  /\ result.risk_score = composite
                  /\ result.risk_score = 700000 => result.label = "Suspicious"
                  /\ result.risk_score = 400000 => result.label = "Safe"

\* A text scoring exactly 0.7 with no external classifier is Suspicious.
C10_Witness ==
    /\ ClassifyApplied
    /\ ~fn_in.raises /\ ~fn_in.ml.present
    /\ fn_out.value.risk_score = 700000
    /\ fn_out.value.label = "Suspicious"

\* The external classifier is present and one of its calls fails.
MLFails(ml) == ml.present /\ (ml.fail_score \/ ml.fail_label)

WellFormed(result) ==
    /\ result.label \in {"Safe", "Suspicious", "Scam"}
    /\ result.confidence >= 0 /\ result.confidence <= ONE
    /\ result.risk_score >= 0 /\ result.risk_score <= ONE
    /\ result.recommendation \in {"SAFE", "SUSPICIOUS", "HIGH RISK", "UNABLE"}

IsFallback(result) ==
    /\ result.label = "Safe"
    /\ result.confidence = 300000
    /\ result.rationale = "Classification error"

\* C11 (as stated): whenever a step of scoring throws, a failing call of the
\* external classifier included, classify returns the Safe / 0.3 fallback
\* whose rationale names the failure.
C11_AnyFailureGivesFallback ==
    (ClassifyApplied /\ (fn_in.raises \/ MLFails(fn_in.ml))) =>
        IsFallback(fn_out.value)

\* C11 (amended): classify always returns a well-formed result; a throw
\* outside the calls of the external classifier gives the Safe / 0.3
\* fallback whose rationale names the failure, and a failure of the external
\* classifier alone is absorbed: the result is then the one computed from
\* patterns and linguistic features, not the fallback.
C11_FallbackOnThrowOutsideClassifier ==
    ClassifyApplied =>
        /\ WellFormed(fn_out.value)
        /\ fn_in.raises =>
              /\ IsFallback(fn_out.value)
              /\ fn_out.value.risk_score = 0
              /\ fn_out.value.fraud_indicators = <<>>
        /\ ~fn_in.raises =>
              /\ fn_out.value.rationale # "Classification error"
              /\ (fn_in.ml.present /\ fn_in.ml.fail_score /\ fn_in.ml.fail_label) =>
                     fn_out.value = Classify(fn_in.transcript, NoML, FALSE)

\* A throwing step on a text that would otherwise score as suspicious.
C11_Witness ==
    /\ ClassifyApplied
    /\ fn_in.raises
    /\ fn_in.transcript = SuspendedAccountText
    /\ IsFallback(fn_out.value)

\* The composite of the pattern and the linguistic signal alone.
PatternLinguisticScore(transcript) ==
    Min(ONE, PatternScore(MatchWeight(MatchedPatterns(transcript)))
             + LinguisticScore(ExtractLinguisticFeatures(transcript)))

\* C12: when the external classifier is absent or its call fails, mlScore is
\* 0 and the returned riskScore is min(1, patternScore + linguisticScore);
\* when it is absent or its labelling call fails, label and confidence are
\* the ones derived from the score thresholds; and in neither case is the
\* Safe / 0.3 failure fallback returned.
C12_DegradesToPatternLinguistic ==
    (ClassifyApplied /\ ~fn_in.raises) =>
        LET ml == fn_in.ml
            result == fn_out.value
            composite == CalculateRiskScore(ExtractLinguisticFeatures(fn_in.transcript),
                                            MatchWeight(MatchedPatterns(fn_in.transcript)), ml)
        IN  /\ (~ml.present \/ ml.fail_score) =>
                  /\ MLScore(ml) = 0
                  /\ composite = PatternLinguisticScore(fn_in.transcript)
                  /\ result.risk_score = PatternLinguisticScore(fn_in.transcript)
            /\ (~ml.present \/ ml.fail_label) =>
                  /\ result.label = PatternLabel(composite)
                  /\ result.confidence = Round3(PatternConfidence(composite))
            /\ (~ml.present \/ MLFails(ml)) =>
                  /\ ~IsFallback(result)
                  /\ result.rationale # "Classification error"

\* A classifier that would report Scam at probability 1.0 fails in both of
\* its calls, and the suspended-account text keeps its pattern+linguistic
\* result.
C12_Witness ==
    /\ ClassifyApplied
    /\ ~fn_in.raises
    /\ fn_in.ml.present /\ fn_in.ml.fail_score /\ fn_in.ml.fail_label
    /\ fn_in.ml.scam = 10000
    /\ fn_in.transcript = SuspendedAccountText
    /\ fn_out.value.label = "Suspicious"
    /\ fn_out.value.risk_score = 550000

\* The composite risk score of the call's input, before rounding.
Composite ==
    CalculateRiskScore(ExtractLinguisticFeatures(fn_in.transcript),
                       MatchWeight(MatchedPatterns(fn_in.transcript)), fn_in.ml)

\* The external classifier answers the labelling call with a higher
\* confidence than the pattern-derived one.
MoreConfident ==
    /\ fn_in.ml.present /\ ~fn_in.ml.fail_label
    /\ MLProba(fn_in.ml) > PatternConfidence(Composite)

\* C13 (as stated): the external label and the external confidence replace
\* the pattern-derived ones exactly when the external confidence is higher,
\* and the returned riskScore is the composite.
C13_ExternalLabelAndConfidenceReplace ==
    (ClassifyApplied /\ ~fn_in.raises) =>
        LET result == fn_out.value
        IN  /\ MoreConfident =>
                  /\ result.label = MLPrediction(fn_in.ml)
                  /\ result.confidence = MLProba(fn_in.ml)
            /\ ~MoreConfident =>
                  /\ result.label = PatternLabel(Composite)
                  /\ result.confidence = Round3(PatternConfidence(Composite))
            /\ result.risk_score = Composite

\* C13 (amended): the external label replaces the pattern-derived label
\* exactly when the external confidence is strictly higher than the
\* pattern-derived confidence, and the reported confidence is then the
\* external one capped at 0.95; the returned riskScore is the composite
\* rounded to three decimals whether or not the label was replaced, and 0.0
\* in the failure fallback.
C13_ExternalLabelReplacesConfidenceCapped ==
    ClassifyApplied =>
        LET result == fn_out.value
        IN  /\ (~fn_in.raises /\ MoreConfident) =>
                  /\ result.label = MLPrediction(fn_in.ml)
                  /\ result.confidence = Round3(Min(950000, MLProba(fn_in.ml)))
            /\ (~fn_in.raises /\ ~MoreConfident) =>
                  /\ result.label = PatternLabel(Composite)
                  /\ result.confidence = Round3(PatternConfidence(Composite))
            /\ ~fn_in.raises => result.risk_score = Round3(Composite)
            /\ fn_in.raises => result.risk_score = 0

\* The external classifier reports Scam at probability 1.0 on the dentist
\* text: the label becomes Scam, the confidence 0.95, and the riskScore stays
\* the composite 0.45.
C13_Witness ==
    /\ ClassifyApplied
    /\ ~fn_in.raises
    /\ fn_in.transcript = DentistText
    /\ fn_in.ml = MLOut(TRUE, FALSE, FALSE, 0, 10000, 0)
    /\ MoreConfident
    /\ fn_out.value.label = "Scam"
    /\ fn_out.value.confidence = 950000
    /\ fn_out.value.risk_score = 450000

\* The three signals of the call's input.
PatternSignal == PatternScore(MatchWeight(MatchedPatterns(fn_in.transcript)))

LinguisticSignal == LinguisticScore(ExtractLinguisticFeatures(fn_in.transcript))

MLSignal == MLScore(fn_in.ml)

\* At most one of the three signals contributes to the score.
SingleSignal ==
    \/ PatternSignal = 0 /\ LinguisticSignal = 0
    \/ PatternSignal = 0 /\ MLSignal = 0
    \/ LinguisticSignal = 0 /\ MLSignal = 0

\* C14 (as stated): when two of the three signals contribute nothing, the
\* result is labelled Safe whatever the third one is; a text with no pattern
\* match and no category word is Safe whatever the external classifier
\* reports.
C14_SingleSignalIsSafe ==
    (ClassifyApplied /\ ~fn_in.raises /\ SingleSignal) =>
        fn_out.value.label = "Safe"

\* C14 (amended): no single signal lifts the composite score above the Safe
\* threshold on its own: with two signals contributing nothing the composite
\* is at most 0.4 and the threshold-derived label is Safe, which is the
\* returned label unless the external classifier is more confident than the
\* pattern-derived confidence; then the returned label is the classifier's.
C14_SingleSignalScoresSafe ==
    (ClassifyApplied /\ ~fn_in.raises /\ SingleSignal) =>
        /\ Composite <= 400000
        /\ fn_out.value.risk_score <= 400000
        /\ PatternLabel(Composite) = "Safe"
        /\ ~MoreConfident => fn_out.value.label = "Safe"
        /\ MoreConfident => fn_out.value.label = MLPrediction(fn_in.ml)

\* Patterns of weight 4.2 alone, with no category word and no external
\* classifier: the pattern score is capped at 0.4 and the label is Safe.
C14_Witness ==
    /\ ClassifyApplied
    /\ ~fn_in.raises
    /\ fn_in.transcript = PatternOnlyText
    /\ ~fn_in.ml.present
    /\ MatchWeight(MatchedPatterns(fn_in.transcript)) > 40
    /\ PatternSignal = 400000 /\ LinguisticSignal = 0 /\ MLSignal = 0
    /\ fn_out.value.label = "Safe"

\* C15: scoring the suspended-account text matches patterns of total weight
\* at least 8.0, so the pattern score is capped at 0.4, and the result is
\* labelled Scam with a riskScore above 0.7.
C15_SuspendedAccountIsScam ==
    (ClassifyApplied /\ ~fn_in.raises /\ fn_in.transcript = SuspendedAccountText) =>
        /\ MatchWeight(MatchedPatterns(fn_in.transcript)) >= 80
        /\ PatternSignal = 400000
        /\ fn_out.value.label = "Scam"
        /\ fn_out.value.risk_score > 700000

\* ------------------------------------------------------------------------
\* Further properties of the monitor (checked under Spec)
\* ------------------------------------------------------------------------
\* The segments process_transcript_segment reads a str text from.
TextSegments == {seg \in Segments : seg.kind \in {"dict", "str"}}

\* C16: a session starts with an empty transcript; the only step that changes
\* the transcript of a session is the start of an ingest on that session,
\* while it is active, which appends the text of its segment at the end (the
\* texts are joined by single spaces), so the transcript is the concatenation
\* of the ingested texts in arrival order; that same step appends the
\* SCAM_KEYWORDS alert of the segment if its triage severity is HIGH or
\* CRITICAL; and the report end_session builds carries the stripped
\* transcript.
C16_TranscriptIsConcatenation ==
    [][/\ \A sid \in DOMAIN session_obj' :
             IF sid \notin DOMAIN session_obj
             THEN session_obj'[sid].accumulated_transcript = <<>>
             ELSE LET before == session_obj[sid]
                      after == session_obj'[sid]
                  IN  \/ after.accumulated_transcript = before.accumulated_transcript
                      \/ /\ IngestStarts
                         /\ ~Closed(sid)
                         /\ \E t \in Tasks : FreeSlot(t) /\ frame'[t].sid = sid
                         /\ \E seg \in TextSegments :
                               /\ after.accumulated_transcript =
                                      before.accumulated_transcript \o seg.text
                               /\ IF TriageSeverity(seg.text) \in {"HIGH", "CRITICAL"}
                                  THEN \E alert \in Range(after.alerts) :
                                          /\ after.alerts = Append(before.alerts, alert)
                                          /\ alert.alert_type = "SCAM_KEYWORDS"
                                          /\ alert.transcript_segment = seg.text
                                          /\ alert.indicators = DetectedKeywords(seg.text)
                                  ELSE after.alerts = before.alerts
       /\ EndStarts =>
             \A t \in Tasks :
                (FreeSlot(t) /\ frame'[t].sid \in sessions) =>
                    /\ pc'[t] = "end_send"
                    /\ frame'[t].final_report.final_transcript =
                           StripAcc(session_obj[frame'[t].sid].accumulated_transcript)]_vars

\* Two different texts were ingested, the high-risk one last: the transcript
\* is the first followed by the second, the only alert is the one of the
\* second segment, and the report of the session carries that transcript.
C16_Witness ==
    \E t \in Tasks : \E s1, s2 \in TextSegments :
       /\ pc[t] = "idle"
       /\ frame[t].op = "end"
       /\ frame[t].line = 300
       /\ s1.text # s2.text
       /\ TriageSeverity(s1.text) \notin {"HIGH", "CRITICAL"}
       /\ TriageSeverity(s2.text) \in {"HIGH", "CRITICAL"}
       /\ LET session == session_obj[frame[t].sid]
          IN  /\ session.accumulated_transcript = s1.text \o s2.text
              /\ frame[t].value.final_transcript = s1.text \o s2.text
              /\ Len(SelectSeq(session.alerts,
                               LAMBDA a : a.alert_type = "SCAM_KEYWORDS")) = 1
              /\ \E i \in DOMAIN session.alerts :
                    /\ session.alerts[i].alert_type = "SCAM_KEYWORDS"
                    /\ session.alerts[i].transcript_segment = s2.text

\* The step in which the ingest of task t either enters the full-context
\* re-score or ends without it: the start of an ingest that appended a text
\* and raised no triage alert, or the return of the triage alert's send.
RescoreDecided(t) ==
    \/ /\ IngestStarts /\ FreeSlot(t)
       /\ frame'[t].sid \in DOMAIN session_obj
       /\ session_obj'[frame'[t].sid].accumulated_transcript
              # session_obj[frame'[t].sid].accumulated_transcript
       /\ pc'[t] # "imm_send"
    \/ pc[t] = "imm_send" /\ pc'[t] # "imm_send"

\* C17: during an ingest the full-context re-score runs (classify, update of
\* the total risk score and risk level, context_analysis message) if and only
\* if the transcript with the segment appended has at least 50 characters;
\* below the floor the ingest leaves score and level unchanged and hands no
\* context_analysis message to the sink.
C17_RescoreIffFloor ==
    [][\A t \in Tasks :
          RescoreDecided(t) =>
              LET sid == frame'[t].sid
                  before == session_obj[sid]
                  after == session_obj'[sid]
                  floor_met == CharLen(StripAcc(after.accumulated_transcript)) >= ContextFloor
              IN  IF floor_met
                  THEN /\ pc'[t] = "ctx_send"
                       /\ after.total_risk_score = frame'[t].result.risk_score
                       /\ after.risk_level = DetermineRiskLevel(frame'[t].result.risk_score)
                       /\ Len(sink'[sid]) = Len(sink[sid]) + 1
                       /\ sink'[sid][Len(sink'[sid])].type = "context_analysis"
                  ELSE /\ pc'[t] = "idle"
                       /\ after.total_risk_score = before.total_risk_score
                       /\ after.risk_level = before.risk_level
                       /\ sink'[sid] = sink[sid]]_vars

\* ------------------------------------------------------------------------
\* Further properties of the pure functions (checked under SpecPure)
\* ------------------------------------------------------------------------
RiskLevelApplied == fn_in.fn = "determine_risk_level" /\ fn_out.done

\* The total order LOW < MEDIUM < HIGH < CRITICAL.
LevelRank == [LOW |-> 1, MEDIUM |-> 2, HIGH |-> 3, CRITICAL |-> 4]

\* C18: _determine_risk_level maps a score >= 0.8 to CRITICAL, >= 0.6 to
\* HIGH, >= 0.4 to MEDIUM and any other to LOW; a higher score never maps to
\* a lower level; and the level is a function of the score alone.
C18_RiskLevelRule ==
    RiskLevelApplied =>
        LET score == fn_in.risk_score
            level == fn_out.value
        IN  /\ level = "CRITICAL" <=> score >= 800000
            /\ level = "HIGH" <=> (score >= 600000 /\ score < 800000)
            /\ level = "MEDIUM" <=> (score >= 400000 /\ score < 600000)
            /\ level = "LOW" <=> score < 400000
            /\ \A lower \in RiskScores :
                  lower <= score =>
                      LevelRank[DetermineRiskLevel(lower)] <= LevelRank[level]
            /\ \A higher \in RiskScores :
                  higher >= score =>
                      LevelRank[DetermineRiskLevel(higher)] >= LevelRank[level]

\* The score 0.8 itself is CRITICAL.
C18_Witness ==
    /\ RiskLevelApplied
    /\ fn_in.risk_score = 800000
    /\ fn_out.value = "CRITICAL"

\* ------------------------------------------------------------------------
\* Delivery failures and invalid segments (checked under Spec)
\* ------------------------------------------------------------------------
\* C19: whether a delivery during an ingest succeeds or fails makes no
\* difference to the session: when the send of the triage alert is over, the
\* re-score runs if the session is in the store and the floor is met; when
\* the send of the context_analysis message is over, the escalation alert is
\* appended if the gate holds; the send of the escalation alert changes
\* nothing; and none of these steps removes the session from the store or
\* makes it inactive.
C19_DeliveryFailureKeepsState ==
    [][\A t \in Tasks :
          (InIngest(t) /\ pc'[t] # pc[t]) =>
              LET sid == frame[t].sid
                  before == session_obj[sid]
                  after == session_obj'[sid]
              IN  /\ sessions' = sessions
                  /\ after.is_active = before.is_active
                  /\ after.accumulated_transcript = before.accumulated_transcript
                  /\ pc[t] = "imm_send" =>
                        IF /\ sid \in sessions
                           /\ CharLen(StripAcc(before.accumulated_transcript)) >= ContextFloor
                        THEN /\ pc'[t] = "ctx_send"
                             /\ after.total_risk_score = frame'[t].result.risk_score
                             /\ after.risk_level =
                                    DetermineRiskLevel(frame'[t].result.risk_score)
                        ELSE after = before
                  /\ pc[t] = "ctx_send" =>
                        IF EscalationGate(frame[t].result.risk_score, frame[t].previous_risk)
                        THEN /\ Len(after.alerts) = Len(before.alerts) + 1
                             /\ after.alerts[Len(after.alerts)].alert_type = "CONTEXT_ANALYSIS"
                        ELSE after = before
                  /\ pc[t] = "ctx_alert_send" => after = before]_vars

\* C20: an ingest on an active session whose segment has no text field, a
\* text that is not a str, or an empty text (the segments that add no word to
\* the transcript) returns at once without raising, leaves the session's
\* transcript, alerts, total risk score and risk level as they were and hands
\* nothing to the sink.
C20_InvalidSegmentIgnored ==
    [][IngestStarts =>
          \A t \in Tasks :
             (FreeSlot(t) /\ ~Closed(frame'[t].sid)) =>
                 LET sid == frame'[t].sid
                     before == session_obj[sid]
                     after == session_obj'[sid]
                     invalid == Words(after.accumulated_transcript)
                                    = Words(before.accumulated_transcript)
                 IN  invalid =>
                        /\ pc'[t] = "idle"
                        /\ frame'[t].outcome = "returned"
                        /\ after = before
                        /\ sink'[sid] = sink[sid]]_vars

\* ------------------------------------------------------------------------
\* enhanced_live_monitoring_endpoint: one connection per task slot, driving
\* the monitor's coroutines one after the other.  The position of the
\* endpoint between two calls is the frame the last call left: a call that
\* returned leaves the endpoint in its loop, a call that raised leaves it on
\* the way to the handler of line 452.  The audio_chunk branch (lines
\* 394-427), which needs the microphone processor, is not part of the model.
\* ------------------------------------------------------------------------
\* The endpoint of task t is at receive_json (line 359) with its session_id.
EpReceiving(t) ==
    /\ pc[t] = "idle"
    /\ frame[t].op \in {"start", "live", "error"}
    /\ frame[t].outcome = "returned"

\* An exception is on its way from the loop to the handler of line 452.
EpRaised(t) ==
    /\ pc[t] = "idle"
    /\ frame[t].op \in {"ingest", "live", "error", "end"}
    /\ frame[t].outcome = "raised"

\* if data.get("segment"): an empty str is skipped (line 431).
Truthy(segment) == ~(segment.kind = "str" /\ segment.text = <<"">>)

\* Lines 349-356: accept, then start_session up to its await.
EpAccept(t) ==
    /\ frame[t].op = "none"
    /\ StartSession(t)

\* A simulated_transcript message: process_transcript_segment up to its first
\* await (lines 429-435).
EpSimulatedTranscript(t, segment) ==
    /\ EpReceiving(t)
    /\ Truthy(segment)
    /\ ProcessTranscriptSegment(t, frame[t].sid, segment)

\* process_transcript_segment has returned: the live_transcription message of
\* lines 438-444 is sent, and send_json returns or raises.
EpLiveTranscription(t) ==
    /\ pc[t] = "idle"
    /\ frame[t].op = "ingest"
    /\ frame[t].outcome = "returned"
    /\ \E ok \in BOOLEAN :
          LET f == [op |-> "live", sid |-> frame[t].sid]
          IN  Finish(t, IF ok THEN Returned(f, None, 444) ELSE Raised(f, "SendError", 438))
    /\ sink' = Hand(sink, frame[t].sid, [type |-> "live_transcription"])
    /\ UNCHANGED <<sessions, session_obj, ml_pipeline, n_calls, next_alert, fn_in, fn_out, manager_vars>>

\* A start_transcription message: RealTimeTranscriber has no add_callback, so
\* line 381 raises AttributeError, caught at line 388, and the error message
\* of lines 389-392 is sent; send_json returns or raises.  Not taken twice in
\* a row, which keeps the messages of a connection finite.
EpStartTranscription(t) ==
    /\ EpReceiving(t)
    /\ frame[t].op # "error"
    /\ \E ok \in BOOLEAN :
          LET f == [op |-> "error", sid |-> frame[t].sid]
          IN  Finish(t, IF ok THEN Returned(f, None, 392) ELSE Raised(f, "SendError", 389))
    /\ sink' = Hand(sink, frame[t].sid, [type |-> "error"])
    /\ UNCHANGED <<sessions, session_obj, ml_pipeline, n_calls, next_alert, fn_in, fn_out, manager_vars>>

\* A stop message: end_session up to its await (lines 446-450).
EpStop(t) ==
    /\ EpReceiving(t)
    /\ EndSession(t, frame[t].sid)

\* The handler of lines 452-455: session_id is set, so end_session is called
\* (again, if the exception came from the end_session of the stop branch).
EpHandleError(t) ==
    /\ EpRaised(t)
    /\ EndSessionAt(t, frame[t].sid, "except_end")

NextEndpoint ==
    \/ \E t \in Tasks : EpAccept(t)
    \/ \E t \in Tasks : StartSent(t)
    \/ \E t \in Tasks : \E segment \in Segments : EpSimulatedTranscript(t, segment)
    \/ \E t \in Tasks : ImmediateAlertSent(t)
    \/ \E t \in Tasks : ContextSent(t)
    \/ \E t \in Tasks : ContextAlertSent(t)
    \/ \E t \in Tasks : EpLiveTranscription(t)
    \/ \E t \in Tasks : EpStartTranscription(t)
    \/ \E t \in Tasks : EpStop(t)
    \/ \E t \in Tasks : EpHandleError(t)
    \/ \E t \in Tasks : EndSent(t)

SpecEndpoint == Init /\ [][NextEndpoint]_vars

\* ------------------------------------------------------------------------
\* Properties of the endpoint (checked under SpecEndpoint)
\* ------------------------------------------------------------------------
\* C21: an error raised while the endpoint handles a message does not end the
\* session: end_session is called only from the loop, on a stop message, never
\* while an exception of a message's handling is pending, and that exception
\* leaves the session in the store and active.
C21_ErrorDoesNotEndSession ==
    [][\A t \in Tasks :
          EpRaised(t) =>
              /\ ~EndStarts
              /\ frame[t].sid \in sessions'
              /\ session_obj'[frame[t].sid].is_active]_vars

\* ------------------------------------------------------------------------
\* Alerts and reports (checked under Spec)
\* ------------------------------------------------------------------------
\* The alerts handed to the delivery function of a session, in order.
DeliveredAlerts(log) ==
    LET handed == SelectSeq(log, LAMBDA msg : msg.type = "fraud_alert")
    IN  [i \in DOMAIN handed |-> handed[i].alert]

\* The number of context_analysis messages handed to the delivery function.
Snapshots(log) == Len(SelectSeq(log, LAMBDA msg : msg.type = "context_analysis"))

\* Task t enters the full-context re-score in this step.
RescoreRuns(t) == pc[t] # "ctx_send" /\ pc'[t] = "ctx_send"

\* C22: the alerts handed to the delivery function of a session are exactly
\* the alerts of the session, each once and in the order of the list; the step
\* that appends an alert hands it over; a full-context re-score hands exactly
\* one context_analysis message, carrying its score, and no other step hands
\* one.
C22_AlertsDeliveredOnceInOrder ==
    [][\A sid \in DOMAIN session_obj' :
          LET after == session_obj'[sid].alerts
              log == sink'[sid]
          IN  /\ DeliveredAlerts(log) = after
              /\ sid \in DOMAIN session_obj =>
                    LET before == session_obj[sid].alerts
                        rescored == \E t \in Tasks : RescoreRuns(t) /\ frame'[t].sid = sid
                    IN  /\ after # before =>
                              /\ after = Append(before, after[Len(after)])
                              /\ log = Append(sink[sid], [type |-> "fraud_alert",
                                                          alert |-> after[Len(after)]])
                        /\ Snapshots(log) = Snapshots(sink[sid]) + (IF rescored THEN 1 ELSE 0)
                        /\ rescored =>
                              /\ log[Len(log)].type = "context_analysis"
                              /\ log[Len(log)].risk_score = session_obj'[sid].total_risk_score]_vars

\* A session holds a SCAM_KEYWORDS alert followed by a CONTEXT_ANALYSIS alert;
\* both were handed over, in that order, and so was a context_analysis message.
C22_Witness ==
    \E sid \in DOMAIN session_obj :
       LET alerts == session_obj[sid].alerts
       IN  /\ Len(alerts) >= 2
           /\ alerts[1].alert_type = "SCAM_KEYWORDS"
           /\ alerts[2].alert_type = "CONTEXT_ANALYSIS"
           /\ DeliveredAlerts(sink[sid]) = alerts
           /\ Snapshots(sink[sid]) >= 1

\* seq1 is a prefix of seq2.
IsPrefix(seq1, seq2) ==
    Len(seq1) <= Len(seq2) /\ SubSeq(seq2, 1, Len(seq1)) = seq1

\* C23: the alert list of a session is append-only: every step leaves the
\* alerts already in the list in place and unmodified, so the list before the
\* step is a prefix of the list after it and its length never decreases.
C23_AlertListAppendOnly ==
    [][\A sid \in DOMAIN session_obj :
          /\ sid \in DOMAIN session_obj'
          /\ IsPrefix(session_obj[sid].alerts, session_obj'[sid].alerts)
          /\ Len(session_obj'[sid].alerts) >= Len(session_obj[sid].alerts)]_vars

\* An ended session, out of the store, whose list grew twice: by the
\* CONTEXT_ANALYSIS alert of one ingest, then by the SCAM_KEYWORDS alert of
\* the next.
C23_Witness ==
    \E sid \in DOMAIN session_obj :
       LET alerts == session_obj[sid].alerts
       IN  /\ sid \notin sessions
           /\ ~session_obj[sid].is_active
           /\ Len(alerts) = 2
           /\ alerts[1].alert_type = "CONTEXT_ANALYSIS"
           /\ alerts[2].alert_type = "SCAM_KEYWORDS"
           /\ alerts[1].alert_id < alerts[2].alert_id

\* ------------------------------------------------------------------------
\* The monitor with one session more than in Spec, fed with two of the
\* segments: the text that passes the context floor and the one that raises
\* a triage alert.
\* ------------------------------------------------------------------------
SessionsSegments ==
    {seg \in Segments : seg.kind = "dict" /\ seg.text # <<>>}

\* A plausible slip: one lock for the whole monitor, held by a call across
\* its awaits and handed on in the order of the calls.
CanResumeInTurn(t) == pc[t] # "idle" /\ \A u \in 1..(t - 1) : pc[u] = "idle"

\* The monitor holds no lock, queue or shared wait (lines 61-79): a suspended
\* coroutine resumes as soon as its own send_json has returned or raised.
CanResume(t) == pc[t] # "idle"

NextSessions ==
    \/ \E t \in Tasks : StartSessionUpTo(t, MaxSessions + 1)
    \/ \E t \in Tasks : CanResume(t) /\ StartSent(t)
    \/ \E t \in Tasks : \E session_id \in KnownIds : \E segment \in SessionsSegments :
          ProcessTranscriptSegment(t, session_id, segment)
    \/ \E t \in Tasks : CanResume(t) /\ ImmediateAlertSent(t)
    \/ \E t \in Tasks : CanResume(t) /\ ContextSent(t)
    \/ \E t \in Tasks : CanResume(t) /\ ContextAlertSent(t)
    \/ \E t \in Tasks : \E session_id \in KnownIds : EndSession(t, session_id)
    \/ \E t \in Tasks : CanResume(t) /\ EndSent(t)

SpecSessions == Init /\ [][NextSessions]_vars

\* The session whose calls are followed to their end, and the other one.
SessionT == MaxSessions + 1

SessionS == MaxSessions

\* The coroutine of task t resumes from the await it is suspended at.
Resume(t) ==
    /\ CanResume(t)
    /\ \/ StartSent(t)
       \/ ImmediateAlertSent(t)
       \/ ContextSent(t)
       \/ ContextAlertSent(t)
       \/ EndSent(t)

\* The sends of session T return or raise, and the event loop then resumes
\* the coroutine that awaits them.  Nothing is assumed of the sends of the
\* other sessions: they may never complete.
FairSessionT == \A t \in Tasks : WF_vars(frame[t].sid = SessionT /\ Resume(t))

SpecSessionsFair == SpecSessions /\ FairSessionT

\* ------------------------------------------------------------------------
\* Properties of sessions side by side (checked under SpecSessions)
\* ------------------------------------------------------------------------
\* Task t takes a step: it starts a call or resumes one.
Acts(t) == pc'[t] # pc[t] \/ frame'[t] # frame[t]

\* C24: a step of start_session, process_transcript_segment or end_session
\* made for session S leaves every other session as it was: its transcript,
\* alerts, total risk score, risk level and active flag, its place in the
\* store and the messages handed to its delivery function.
C24_SessionsIndependent ==
    [][\A t \in Tasks :
          Acts(t) =>
              \A other \in DOMAIN session_obj :
                 other # frame'[t].sid =>
                    /\ session_obj'[other] = session_obj[other]
                    /\ (other \in sessions') = (other \in sessions)
                    /\ sink'[other] = sink[other]]_vars

\* Two sessions side by side: one ended and out of the store with a score and
\* an alert, the other still in the store, active and untouched.
C24_Witness ==
    \E S, T \in DOMAIN session_obj :
       /\ S # T
       /\ S \notin sessions /\ ~session_obj[S].is_active
       /\ session_obj[S].total_risk_score > 0
       /\ session_obj[S].alerts # <<>>
       /\ T \in sessions
       /\ session_obj[T] = NewSession

\* This step is the start of a start_session call.
StartStarts == n_calls'[1] # n_calls[1]

\* C25: start_session puts into the store a session that is active, with an
\* empty transcript, no alerts, total risk score 0 and risk level LOW, under
\* an id that no session has or ever had, and leaves the sessions that exist
\* and their places in the store as they are.
C25_StartCreatesFreshSession ==
    [][StartStarts =>
          \A t \in Tasks :
             FreeSlot(t) =>
                 LET sid == frame'[t].sid
                 IN  /\ sid \notin DOMAIN session_obj
                     /\ sid \notin sessions
                     /\ sid # UnknownId
                     /\ sessions' = sessions \cup {sid}
                     /\ DOMAIN session_obj' = DOMAIN session_obj \cup {sid}
                     /\ session_obj'[sid].is_active
                     /\ session_obj'[sid].accumulated_transcript = <<>>
                     /\ session_obj'[sid].alerts = <<>>
                     /\ session_obj'[sid].total_risk_score = 0
                     /\ session_obj'[sid].risk_level = "LOW"
                     /\ \A other \in DOMAIN session_obj :
                           session_obj'[other] = session_obj[other]]_vars

\* start_session has returned the id of a second session, created while the
\* first one already had a transcript and a score.
C25_Witness ==
    \E t \in Tasks : \E first \in DOMAIN session_obj :
       /\ pc[t] = "idle"
       /\ frame[t].op = "start"
       /\ frame[t].outcome = "returned"
       /\ frame[t].value # first
       /\ frame[t].value \in sessions
       /\ session_obj[frame[t].value] = NewSession
       /\ first \in sessions
       /\ session_obj[first].accumulated_transcript # <<>>
       /\ session_obj[first].total_risk_score > 0

\* ------------------------------------------------------------------------
\* The counts of the final report (checked under Spec)
\* ------------------------------------------------------------------------
\* The number of alerts of the list with the severity given.
NumberOfSeverity(alerts, sev) ==
    Cardinality({i \in DOMAIN alerts : alerts[i].severity = sev})

\* C26: in the final report end_session builds, total_alerts is the number
\* of alerts the session holds, alerts_by_severity has exactly the keys
\* CRITICAL, HIGH, MEDIUM and LOW, each with the number of the session's
\* alerts of that severity, and the four counts add up to total_alerts.
C26_ReportCounts ==
    [][\A t \in Tasks :
          (EndStarts /\ FreeSlot(t) /\ frame'[t].sid \in sessions) =>
              LET alerts == session_obj[frame'[t].sid].alerts
                  report == frame'[t].final_report
                  groups == report.alerts_by_severity
              IN  /\ report.total_alerts = Len(alerts)
                  /\ DOMAIN groups = {"CRITICAL", "HIGH", "MEDIUM", "LOW"}
                  /\ \A sev \in DOMAIN groups : groups[sev] = NumberOfSeverity(alerts, sev)
                  /\ groups["CRITICAL"] + groups["HIGH"] + groups["MEDIUM"] + groups["LOW"]
                        = report.total_alerts
                  /\ sink'[frame'[t].sid][Len(sink'[frame'[t].sid])].final_report = report]_vars

\* A report has been built for a session that holds alerts of two
\* severities, one of them CRITICAL.
C26_Witness ==
    \E t \in Tasks :
       /\ pc[t] = "end_send"
       /\ frame[t].final_report.alerts_by_severity["CRITICAL"] >= 1
       /\ frame[t].final_report.total_alerts
             > frame[t].final_report.alerts_by_severity["CRITICAL"]

\* ------------------------------------------------------------------------
\* The key indicators of the final report (checked under SpecPure)
\* ------------------------------------------------------------------------
IndicatorsApplied == fn_in.fn = "extract_key_indicators" /\ fn_out.done

\* The positions (alert, place in its indicators list) where x occurs.
Occurrences(alerts, x) ==
    {p \in (DOMAIN alerts) \X (1..MaxIndicators) :
        p[2] \in DOMAIN alerts[p[1]].indicators /\ alerts[p[1]].indicators[p[2]] = x}

Frequency(alerts, x) == Cardinality(Occurrences(alerts, x))

\* Position p comes before position q in the order the indicators are read.
Earlier(p, q) == p[1] < q[1] \/ (p[1] = q[1] /\ p[2] < q[2])

\* x is seen first before y is.
SeenBefore(alerts, x, y) ==
    \E p \in Occurrences(alerts, x) : \A q \in Occurrences(alerts, y) : Earlier(p, q)

\* x ranks before y: more frequent, or as frequent and seen first.
RanksBefore(alerts, x, y) ==
    \/ Frequency(alerts, x) > Frequency(alerts, y)
    \/ Frequency(alerts, x) = Frequency(alerts, y) /\ SeenBefore(alerts, x, y)

AllIndicatorNames == {IndicatorName(k) : k \in 1..MaxIndicators}

\* C27: key_fraud_indicators has at most 10 entries and no duplicates, holds
\* only indicators of the alerts, as many as there are up to 10, in order of
\* descending frequency with ties in first-seen order, and an indicator left
\* out ranks after every one kept (so it is never more frequent).
C27_KeyIndicatorsRanked ==
    IndicatorsApplied =>
        LET alerts == fn_in.alerts
            kept == fn_out.value
            present == {x \in AllIndicatorNames : Frequency(alerts, x) > 0}
        IN  /\ Len(kept) <= 10
            /\ Len(kept) = Min(10, Cardinality(present))
            /\ \A i, j \in DOMAIN kept : i # j => kept[i] # kept[j]
            /\ \A i \in DOMAIN kept : kept[i] \in present
            /\ \A i, j \in DOMAIN kept : i < j => RanksBefore(alerts, kept[i], kept[j])
            /\ \A x \in present \ Range(kept) :
                  \A i \in DOMAIN kept :
                     /\ RanksBefore(alerts, kept[i], x)
                     /\ Frequency(alerts, x) <= Frequency(alerts, kept[i])

\* The function was applied to alerts with more than ten distinct
\* indicators, some of them tied, and an indicator seen late was kept
\* because it is frequent.
C27_Witness ==
    /\ IndicatorsApplied
    /\ Cardinality({x \in AllIndicatorNames : Frequency(fn_in.alerts, x) > 0}) > 10
    /\ Len(fn_out.value) = 10
    /\ fn_out.value[1] = IndicatorName(MaxIndicators)
    /\ fn_out.value[2] = IndicatorName(3)
    /\ Frequency(fn_in.alerts, IndicatorName(1)) = Frequency(fn_in.alerts, IndicatorName(2))

\* ------------------------------------------------------------------------
\* The keyword triage below HIGH (checked under Spec)
\* ------------------------------------------------------------------------
\* The message carries the result of a keyword triage.
CarriesTriage(msg, severity, detected_keywords) ==
    /\ "severity" \in DOMAIN msg
    /\ "detected_keywords" \in DOMAIN msg
    /\ msg.severity = severity
    /\ msg.detected_keywords = detected_keywords

\* C28: a process_transcript_segment call on an active session with a text
\* whose detected keywords have the triage severity LOW or MEDIUM appends no
\* alert to the session and hands the sink a message that carries that
\* severity and the detected keywords.
C28_LowMediumTriageSurfaced ==
    [][IngestStarts =>
          \A t \in Tasks :
             (FreeSlot(t) /\ ~Closed(frame'[t].sid)) =>
                 LET sid == frame'[t].sid
                     before == session_obj[sid]
                     after == session_obj'[sid]
                     text == SubSeq(after.accumulated_transcript,
                                    Len(before.accumulated_transcript) + 1,
                                    Len(after.accumulated_transcript))
                 IN  (/\ text # <<>>
                      /\ DetectedKeywords(text) # <<>>
                      /\ TriageSeverity(text) \in {"LOW", "MEDIUM"}) =>
                         /\ after.alerts = before.alerts
                         /\ \E i \in (Len(sink[sid]) + 1)..Len(sink'[sid]) :
                               CarriesTriage(sink'[sid][i], TriageSeverity(text),
                                             DetectedKeywords(text))]_vars

\* ------------------------------------------------------------------------
\* Progress of one session beside another (checked under SpecSessionsFair)
\* ------------------------------------------------------------------------
\* C29: a process_transcript_segment or end_session call for session T that
\* is suspended at a send completes, whatever the calls for session S do:
\* they may stay suspended for ever at the send of their re-score or of an
\* alert.
C29_OtherSessionCompletes ==
    \A t \in Tasks :
       (pc[t] # "idle" /\ frame[t].sid = SessionT /\ frame[t].op \in {"ingest", "end"})
          ~> (pc[t] = "idle")

\* An ingest for session S is suspended at the send of its re-score, and an
\* ingest for session T has meanwhile run to its end, context_analysis sent.
C29_Witness ==
    \E t, u \in Tasks :
       /\ pc[t] = "ctx_send"
       /\ frame[t].sid = SessionS
       /\ Len(session_obj[SessionS].accumulated_transcript) > 0
       /\ n_calls[2] = 2
       /\ pc[u] = "idle"
       /\ frame[u].op = "ingest"
       /\ frame[u].sid = SessionT
       /\ frame[u].outcome = "returned"
       /\ frame[u].line \in {204, 220}
       /\ SessionT \in sessions

\* ------------------------------------------------------------------------
\* The pattern score and the set of matches (checked under SpecPure)
\* ------------------------------------------------------------------------
PatternScoreApplied == fn_in.fn = "pattern_score" /\ fn_out.done

\* C30: for matched catalog patterns A within B, the pattern score of A is at
\* most the pattern score of B, and neither exceeds 0.4.
C30_PatternScoreMonotone ==
    PatternScoreApplied =>
        /\ fn_out.value.of_matched <= fn_out.value.of_more
        /\ fn_out.value.of_more <= 400000
        /\ fn_out.value.of_matched >= 0

\* B has a match that A lacks, lighter than the match of A, and weighs more
\* than 4.0: its score is held at 0.4, above the score of A.
C30_Witness ==
    /\ PatternScoreApplied
    /\ Len(fn_in.matched) = 1
    /\ Len(fn_in.more) = 2
    /\ fn_in.matched[1].weight > fn_in.more[2].weight
    /\ MatchWeight(fn_in.more) > 40
    /\ fn_out.value.of_matched < fn_out.value.of_more
    /\ fn_out.value.of_more = 400000

\* ------------------------------------------------------------------------
\* The score and the level of a session (checked under Spec)
\* ------------------------------------------------------------------------
\* The severity mapping of a score.
SeverityOfScore(score) ==
    CASE score >= 800000 -> "CRITICAL"
      [] score >= 600000 /\ score < 800000 -> "HIGH"
      [] score >= 400000 /\ score < 600000 -> "MEDIUM"
      [] OTHER -> "LOW"

\* C31: in every state, the states in which an ingest is suspended at a send
\* included, the risk level of every session in the store is the severity
\* mapping of its total risk score.
C31_LevelFollowsScore ==
    \A sid \in sessions :
       session_obj[sid].risk_level = SeverityOfScore(session_obj[sid].total_risk_score)

\* An ingest is suspended at the send of its re-score, which has lifted the
\* session from LOW.
C31_Witness ==
    \E t \in Tasks :
       /\ pc[t] = "ctx_send"
       /\ frame[t].sid \in sessions
       /\ frame[t].previous_risk = 0
       /\ session_obj[frame[t].sid].total_risk_score >= 400000
       /\ session_obj[frame[t].sid].risk_level # "LOW"

\* C32: the total risk score and the risk level of a session change only in
\* the step of a full-context re-score of that session: the keyword triage
\* (also when it appends a HIGH or CRITICAL alert), the resumptions after a
\* send and end_session leave them as they are, and the final report carries
\* the level the session has, whatever the severity of its alerts.
C32_OnlyRescoreChangesScore ==
    [][/\ \A sid \in DOMAIN session_obj :
             (\/ session_obj'[sid].total_risk_score # session_obj[sid].total_risk_score
              \/ session_obj'[sid].risk_level # session_obj[sid].risk_level) =>
                 \E t \in Tasks : RescoreRuns(t) /\ frame'[t].sid = sid
       /\ \A t \in Tasks :
             /\ (pc[t] # "imm_send" /\ pc'[t] = "imm_send") =>
                    LET sid == frame'[t].sid
                    IN  /\ Len(session_obj'[sid].alerts) = Len(session_obj[sid].alerts) + 1
                        /\ session_obj'[sid].total_risk_score = session_obj[sid].total_risk_score
                        /\ session_obj'[sid].risk_level = session_obj[sid].risk_level
             /\ (pc[t] # "end_send" /\ pc'[t] = "end_send") =>
                    LET sid == frame'[t].sid
                    IN  /\ frame'[t].final_report.final_risk_level = session_obj[sid].risk_level
                        /\ frame'[t].final_report.final_risk_score
                              = session_obj[sid].total_risk_score
                        /\ session_obj'[sid].risk_level = session_obj[sid].risk_level
                        /\ session_obj'[sid].total_risk_score
                              = session_obj[sid].total_risk_score]_vars

\* A report has been built for a session that holds a HIGH keyword alert and
\* was never re-scored: its level is LOW.
C32_Witness ==
    \E t \in Tasks :
       /\ pc[t] = "end_send"
       /\ frame[t].final_report.final_risk_level = "LOW"
       /\ frame[t].final_report.final_risk_score = 0
       /\ \E i \in DOMAIN session_obj[frame[t].sid].alerts :
             LET alert == session_obj[frame[t].sid].alerts[i]
             IN  alert.alert_type = "SCAM_KEYWORDS" /\ alert.severity = "HIGH"

\* ------------------------------------------------------------------------
\* The baseline of the escalation gate (checked under Spec)
\* ------------------------------------------------------------------------
\* The send of the re-score of task t has returned or raised in this step.
RescoreResumes(t) == pc[t] = "ctx_send" /\ pc'[t] # "ctx_send"

\* The step appends a CONTEXT_ANALYSIS alert to the session.
EscalationAppended(sid) ==
    /\ Len(session_obj'[sid].alerts) = Len(session_obj[sid].alerts) + 1
    /\ session_obj'[sid].alerts[Len(session_obj'[sid].alerts)].alert_type
          = "CONTEXT_ANALYSIS"

\* C33: a re-score takes as its baseline the score the session has, which is
\* the score of the re-score before it (0 before the first), and overwrites
\* it with its own; a re-score on the baseline 0 with a score above
\* alert_threshold raises a CONTEXT_ANALYSIS alert, and a re-score that
\* rises by at most 0.2 over its baseline raises none.
C33_BaselineIsPreviousRescore ==
    [][\A t \in Tasks :
          /\ RescoreRuns(t) =>
                /\ frame'[t].previous_risk = session_obj[frame'[t].sid].total_risk_score
                /\ session_obj'[frame'[t].sid].total_risk_score = frame'[t].result.risk_score
          /\ RescoreResumes(t) =>
                /\ (frame[t].previous_risk = 0 /\ frame[t].result.risk_score > AlertThreshold)
                      => EscalationAppended(frame[t].sid)
                /\ frame[t].result.risk_score <= frame[t].previous_risk + EscalationDelta
                      => session_obj'[frame[t].sid].alerts = session_obj[frame[t].sid].alerts]_vars

\* ------------------------------------------------------------------------
\* The severity of an alert and its own score (checked under Spec)
\* ------------------------------------------------------------------------
\* C34: the severity of every alert of every session is the severity mapping
\* of the alert's own risk score: a SCAM_KEYWORDS alert is HIGH with 0.7 or
\* CRITICAL with 0.9, and a CONTEXT_ANALYSIS alert has the level of its
\* score, LOW for a score between alert_threshold and 0.4.
C34_AlertSeverityFollowsScore ==
    \A sid \in DOMAIN session_obj :
       \A i \in DOMAIN session_obj[sid].alerts :
          LET alert == session_obj[sid].alerts[i]
          IN  /\ alert.severity = SeverityOfScore(alert.risk_score)
              /\ alert.alert_type = "SCAM_KEYWORDS" =>
                    \/ alert.severity = "HIGH" /\ alert.risk_score = 700000
                    \/ alert.severity = "CRITICAL" /\ alert.risk_score = 900000
              /\ alert.alert_type = "CONTEXT_ANALYSIS" =>
                    /\ alert.risk_score > AlertThreshold
                    /\ alert.risk_score < 400000 => alert.severity = "LOW"

\* A session holds a LOW CONTEXT_ANALYSIS alert and a CRITICAL SCAM_KEYWORDS
\* alert.
C34_Witness ==
    \E sid \in DOMAIN session_obj :
       \E i, j \in DOMAIN session_obj[sid].alerts :
          /\ session_obj[sid].alerts[i].alert_type = "CONTEXT_ANALYSIS"
          /\ session_obj[sid].alerts[i].severity = "LOW"
          /\ session_obj[sid].alerts[j].alert_type = "SCAM_KEYWORDS"
          /\ session_obj[sid].alerts[j].severity = "CRITICAL"

\* ------------------------------------------------------------------------
\* The score without an external classifier (checked under SpecPure)
\* ------------------------------------------------------------------------
\* C35: with no external classifier the pattern score is at most 0.4 and the
\* linguistic score at most 0.3, the risk score classify returns is at most
\* 0.7 and its label is never Scam; a session re-scored with such a result is
\* never CRITICAL, and its final recommendations are never those of the
\* bracket from 0.8.
C35_NoClassifierCapsAtSuspicious ==
    (ClassifyApplied /\ ~fn_in.ml.present) =>
        LET result == fn_out.value
            session == Rescored(NewSession, result)
        IN  /\ ~fn_in.raises => PatternSignal <= 400000 /\ LinguisticSignal <= 300000
            /\ result.risk_score <= 700000
            /\ result.label # "Scam"
            /\ session.risk_level # "CRITICAL"
            /\ session.total_risk_score < 800000
            /\ GenerateFinalRecommendations(session) # "HIGH FRAUD RISK"

\* With no external classifier both signals are at their caps: the score is
\* 0.7, labelled Suspicious, and the session would be HIGH.
C35_Witness ==
    /\ ClassifyApplied
    /\ ~fn_in.ml.present
    /\ ~fn_in.raises
    /\ PatternSignal = 400000
    /\ LinguisticSignal = 300000
    /\ fn_out.value.risk_score = 700000
    /\ fn_out.value.label = "Suspicious"
    /\ Rescored(NewSession, fn_out.value).risk_level = "HIGH"

\* ------------------------------------------------------------------------
\* The recommendation and the label (checked under SpecPure)
\* ------------------------------------------------------------------------
\* C36 (as stated): a result labelled Scam carries the high-risk template, a
\* result labelled Suspicious the suspicious template and a result labelled
\* Safe the safe template.
C36_RecommendationMatchesLabel ==
    ClassifyApplied =>
        LET result == fn_out.value
        IN  /\ result.label = "Scam" => result.recommendation = "HIGH RISK"
            /\ result.label = "Suspicious" => result.recommendation = "SUSPICIOUS"
            /\ result.label = "Safe" => result.recommendation = "SAFE"

\* C36 (amended): the recommendation is never milder than the label and may
\* be more severe: it is the high-risk template if the label is Scam or the
\* composite score is above 0.7, otherwise the suspicious template if the
\* label is Suspicious or the composite score is above 0.4, otherwise the
\* safe template.  So Scam always carries the high-risk template, Suspicious
\* the suspicious or the high-risk one, and the safe template is carried only
\* by a Safe result with a composite of at most 0.4; the failure fallback is
\* Safe with the unable-to-classify text.
C36_RecommendationAtLeastLabel ==
    ClassifyApplied =>
        LET result == fn_out.value
        IN  /\ ~fn_in.raises =>
                  /\ (result.label = "Scam" \/ Composite > 700000)
                        => result.recommendation = "HIGH RISK"
                  /\ (result.label # "Scam" /\ Composite <= 700000
                        /\ (result.label = "Suspicious" \/ Composite > 400000))
                        => result.recommendation = "SUSPICIOUS"
                  /\ (result.label = "Safe" /\ Composite <= 400000)
                        => result.recommendation = "SAFE"
                  /\ result.label = "Suspicious"
                        => result.recommendation \in {"SUSPICIOUS", "HIGH RISK"}
                  /\ result.recommendation = "SAFE" => result.label = "Safe"
            /\ fn_in.raises =>
                  result.label = "Safe" /\ result.recommendation = "UNABLE"

\* The external classifier is 0.9 sure of Safe on a text whose composite is
\* above 0.7: the label is Safe and the recommendation the high-risk one.
C36_Witness ==
    /\ ClassifyApplied
    /\ ~fn_in.raises
    /\ MoreConfident
    /\ Composite > 700000
    /\ fn_out.value.label = "Safe"
    /\ fn_out.value.recommendation = "HIGH RISK"

\* ------------------------------------------------------------------------
\* Letter case in the keyword triage (checked under Spec)
\* ------------------------------------------------------------------------
\* The text contains the keyword when letter case is ignored on both sides.
ContainsAnyCase(text, keyword) ==
    ContainsLit(LowerText(text), LowerText(KeywordWords[keyword]))

\* The text process_transcript_segment appends to the transcript of sid in
\* this step.
IngestedText(sid) ==
    LET old == session_obj[sid].accumulated_transcript
        new == session_obj'[sid].accumulated_transcript
    IN  SubSeq(new, Len(old) + 1, Len(new))

Ingests(sid) ==
    /\ sid \in sessions
    /\ sid \in sessions'
    /\ Len(session_obj'[sid].accumulated_transcript)
          > Len(session_obj[sid].accumulated_transcript)

\* The step appends a SCAM_KEYWORDS alert to the alerts of sid.
TriageAlertAppended(sid) ==
    /\ Len(session_obj'[sid].alerts) = Len(session_obj[sid].alerts) + 1
    /\ session_obj'[sid].alerts[Len(session_obj'[sid].alerts)].alert_type = "SCAM_KEYWORDS"

LastAlert(sid) == session_obj'[sid].alerts[Len(session_obj'[sid].alerts)]

\* C37: the keyword triage ignores letter case and can detect every keyword
\* of fraud_keywords: when a segment whose text contains a keyword in any
\* letter case is taken in, a critical keyword (such as "IRS") makes the
\* segment CRITICAL and raises a SCAM_KEYWORDS alert, and every alert the
\* segment raises lists each keyword the text contains.
C37_KeywordsDetectedInAnyCase ==
    [][\A sid \in sessions : Ingests(sid) =>
          \A i \in DOMAIN fraud_keywords :
             LET k == fraud_keywords[i]
             IN  ContainsAnyCase(IngestedText(sid), k) =>
                    /\ k \in Range(critical_keywords) =>
                          /\ TriageAlertAppended(sid)
                          /\ LastAlert(sid).severity = "CRITICAL"
                    /\ TriageAlertAppended(sid) => k \in Range(LastAlert(sid).indicators)
      ]_vars

\* ------------------------------------------------------------------------
\* Release of the endpoint's session (checked under SpecEndpoint)
\* ------------------------------------------------------------------------
\* The endpoint of task t is over.  It has returned if the end_session of the
\* stop branch returned (break, line 450), if the end_session of the handler
\* returned, or if start_session raised (session_id is still None, so the
\* handler of line 452 calls nothing); it has raised if the end_session of the
\* handler raised.
EpOver(t) ==
    /\ pc[t] = "idle"
    /\ \/ frame[t].op = "end" /\ frame[t].outcome = "returned"
       \/ frame[t].op = "except_end"
       \/ frame[t].op = "start" /\ frame[t].outcome = "raised"

\* C38: when the endpoint has returned or raised, after a stop message or
\* after an error such as a connection on which sends fail, the session it
\* started is no longer in the store.
C38_EndpointReleasesSession ==
    \A t \in Tasks : EpOver(t) => frame[t].sid \notin sessions

\* ------------------------------------------------------------------------
\* ConnectionManager (main.py, main_backup.py): the list of the connections
\* of /ws and the broadcast of a report to them.  WebSocket objects are
\* numbered in the order they are accepted; a broadcast is a coroutine in a
\* task slot, suspended at the send_json of one connection at a time.
\* ------------------------------------------------------------------------
\* WebSocket objects accepted at most.
MaxSockets == 3

\* list.remove(x): the first occurrence is taken out.
RemoveFirst(list, x) ==
    LET i == CHOOSE i \in DOMAIN list : list[i] = x /\ \A j \in 1..(i - 1) : list[j] # x
    IN  SubSeq(list, 1, i - 1) \o SubSeq(list, i + 1, Len(list))

\* disconnect(ws): if ws in self.active: self.active.remove(ws)
Disconnect(list, ws) == IF ws \in Range(list) THEN RemoveFirst(list, ws) ELSE list

\* A plausible slip: the loop runs over self.active itself.
IteratedLive(snapshot, list) == list

\* for ws in list(self.active): the loop runs over the copy made when the
\* broadcast starts, whatever happens to self.active (list) meanwhile.
Iterated(snapshot, list) == snapshot

\* websocket_endpoint: manager.connect(ws) accepts the connection and appends
\* it to the list.
Connect ==
    /\ Len(sockets) < MaxSockets
    /\ sockets' = Append(sockets, "open")
    /\ active' = Append(active, Len(sockets) + 1)
    /\ UNCHANGED <<monitor_vars, fn_in, fn_out>>

\* websocket_endpoint: the client goes away, receive_text raises
\* WebSocketDisconnect and the handler calls manager.disconnect(ws).
WebSocketDisconnects(ws) ==
    /\ ws \in DOMAIN sockets
    /\ sockets[ws] = "open"
    /\ sockets' = [sockets EXCEPT ![ws] = "closed"]
    /\ active' = Disconnect(active, ws)
    /\ UNCHANGED <<monitor_vars, fn_in, fn_out>>

\* websocket_endpoint: the pong send_json raises something else than
\* WebSocketDisconnect, which leaves the endpoint without a disconnect.
EndpointRaises(ws) ==
    /\ ws \in DOMAIN sockets
    /\ sockets[ws] = "open"
    /\ sockets' = [sockets EXCEPT ![ws] = "closed"]
    /\ UNCHANGED <<monitor_vars, fn_in, fn_out, active>>

\* The broadcast is over: the for loop is exhausted and the coroutine returns.
BroadcastReturned(f) ==
    [op |-> "broadcast", outcome |-> "returned", snapshot |-> f.snapshot,
     attempted |-> f.attempted, failed |-> f.failed]

\* broadcast(msg), from the call to the await of the first send_json.
Broadcast(t) ==
    /\ FreeSlot(t)
    /\ LET snapshot == active
           f == [op |-> "broadcast", snapshot |-> snapshot, i |-> 1,
                 attempted |-> <<>>, failed |-> {}]
           list == Iterated(snapshot, active)
       IN  IF list = <<>>
           THEN Finish(t, BroadcastReturned(f))
           ELSE /\ pc' = [pc EXCEPT ![t] = "bc_send"]
                /\ frame' = [frame EXCEPT ![t] = [f EXCEPT !.attempted = <<list[1]>>]]
    /\ UNCHANGED <<sessions, session_obj, sink, ml_pipeline, n_calls, next_alert,
                   fn_in, fn_out, manager_vars>>

\* What send_json of a connection can do: raise on a closed one, return or
\* raise on an open one.
SendOutcomes(ws) == IF sockets[ws] = "open" THEN BOOLEAN ELSE {FALSE}

\* broadcast resumes: send_json returned or raised; a raise is caught by the
\* bare except, which calls disconnect(ws); then the loop goes on to the await
\* of the next send_json, or ends.
BroadcastSent(t) ==
    /\ pc[t] = "bc_send"
    /\ LET f == frame[t]
           ws == f.attempted[Len(f.attempted)]
       IN  \E ok \in SendOutcomes(ws) :
              LET remaining == IF ok THEN active ELSE Disconnect(active, ws)
                  failed == IF ok THEN f.failed ELSE f.failed \cup {ws}
                  list == Iterated(f.snapshot, remaining)
              IN  /\ active' = remaining
                  /\ IF f.i < Len(list)
                     THEN /\ pc' = pc
                          /\ frame' = [frame EXCEPT ![t] =
                                          [f EXCEPT !.i = f.i + 1,
                                                    !.attempted = Append(@, list[f.i + 1]),
                                                    !.failed = failed]]
                     ELSE Finish(t, BroadcastReturned([f EXCEPT !.failed = failed]))
    /\ UNCHANGED <<sessions, session_obj, sink, ml_pipeline, n_calls, next_alert,
                   fn_in, fn_out, sockets>>

NextBroadcast ==
    \/ Connect
    \/ \E ws \in 1..MaxSockets : WebSocketDisconnects(ws)
    \/ \E ws \in 1..MaxSockets : EndpointRaises(ws)
    \/ \E t \in Tasks : Broadcast(t)
    \/ \E t \in Tasks : BroadcastSent(t)

SpecBroadcast == Init /\ [][NextBroadcast]_vars

\* ------------------------------------------------------------------------
\* Properties of the ConnectionManager (checked under SpecBroadcast)
\* ------------------------------------------------------------------------
\* Task t starts a broadcast in this step.
BroadcastStarts(t) == pc[t] = "idle" /\ frame'[t] # frame[t]

\* C39: a broadcast attempts a send to every connection that is in the list
\* when it starts, in the order of the list, whatever fails or disconnects
\* while it is suspended; a connection whose send fails is taken out of the
\* list and a send that succeeds leaves the list as it is; a broadcast never
\* raises; and the disconnect of a connection that is not in the list leaves
\* the list as it is.
C39_BroadcastReachesSnapshot ==
    [][/\ \A t \in Tasks :
             /\ BroadcastStarts(t) => frame'[t].snapshot = active
             /\ frame'[t].op = "broadcast" =>
                   /\ IsPrefix(frame'[t].attempted, frame'[t].snapshot)
                   /\ pc'[t] = "idle" =>
                         /\ frame'[t].outcome = "returned"
                         /\ frame'[t].attempted = frame'[t].snapshot
             /\ pc[t] = "bc_send" /\ frame'[t] # frame[t] =>
                   LET ws == frame[t].attempted[Len(frame[t].attempted)]
                   IN  IF frame'[t].failed # frame[t].failed
                       THEN /\ ws \notin Range(active')
                            /\ active' = SelectSeq(active, LAMBDA other : other # ws)
                       ELSE active' = active
       /\ \A ws \in DOMAIN sockets :
             (sockets[ws] = "open" /\ sockets'[ws] = "closed" /\ ws \notin Range(active))
                 => active' = active
      ]_vars

\* A broadcast over two connections or more is over: the send to the first
\* failed, another of its connections left the list by a disconnect while
\* the broadcast was suspended, and every one of them was attempted.
C39_Witness ==
    \E t \in Tasks :
       /\ pc[t] = "idle"
       /\ frame[t].op = "broadcast"
       /\ Len(frame[t].snapshot) >= 2
       /\ frame[t].snapshot[1] \in frame[t].failed
       /\ frame[t].attempted = frame[t].snapshot
       /\ \E ws \in Range(frame[t].snapshot) \ frame[t].failed :
             ws \notin Range(active) /\ sockets[ws] = "closed"

====
